---- MODULE Spec2Model ----
(***************************************************************************)
(* Model of the ozz categorization engine (core/processor.ts), of the      *)
(* `ozz update` command that drives it (commands/update.ts) and of the     *)
(* helpers they use.                                                       *)
(*                                                                         *)
(* Strings that the code inspects character by character (descriptions,    *)
(* rule patterns, rename patterns) are sequences of one-character strings. *)
(* Names that the code only compares or uses as keys (category names, tag  *)
(* names, reason codes) are plain strings.                                 *)
(***************************************************************************)
EXTENDS Integers, Sequences, FiniteSets, TLC

VARIABLES
    transactions,      \* processBatch: the input batch
    options,           \* processBatch: force / renameOnly / tagsOnly / cardId / invoiceId / apply
    config,            \* the loaded configuration (rules, rename, categories, tags)
    results,           \* processBatch: the results pushed so far
    pc,                \* position of the running invocation
    invoiceCache,      \* module-level `invoiceCache` of the processor
    categoryMapCache,  \* module-level `categoryMapCache` of the processor
    apiCalls,          \* requests the API client has sent, in order
    applied,           \* update command: the `applied` counter
    cursor,            \* update command: results the apply loop has visited
    fn,                \* harness of the helper functions: the function called
    args,              \* harness: its arguments
    ret,               \* harness: its return value, once it has returned
    client             \* the OrganizzeAPI instance, its callers and the clock

vars == <<transactions, options, config, results, pc, invoiceCache,
          categoryMapCache, apiCalls, applied, cursor, fn, args, ret, client>>

batchVars == <<transactions, options, config, results, pc, invoiceCache,
               categoryMapCache, apiCalls, applied, cursor>>

harnessVars == <<fn, args, ret>>

-----------------------------------------------------------------------------
(* JavaScript values                                                       *)

\* `null` where the code has `number | null`; every real id is >= 0.
NullId == -1

\* `null` where the code has `string | null` and the string is a description.
NullStr == <<"<null>">>

\* `null` / undefined where the code has a name (category name, reason).
NullName == "<null>"

\* An absent `tags` key of `changes`.
NullTags == <<"<null>">>

\* JavaScript truthiness of a number | null: null and 0 are falsy.
TruthyId(id) == id /= NullId /\ id /= 0

\* JavaScript truthiness of a string | null: null and "" are falsy.
TruthyStr(s) == s /= NullStr /\ s /= <<>>

TruthyName(n) == n /= NullName /\ n /= ""

WhiteSpace == {" "}

DecimalDigits == {"0", "1", "2", "3", "4", "5", "6", "7", "8", "9"}

DigitValue(c) ==
    CASE c = "0" -> 0 [] c = "1" -> 1 [] c = "2" -> 2 [] c = "3" -> 3
      [] c = "4" -> 4 [] c = "5" -> 5 [] c = "6" -> 6 [] c = "7" -> 7
      [] c = "8" -> 8 [] c = "9" -> 9

\* The letters the model's strings use, lower case to upper case: what the
\* `i` flag of a RegExp compares (Canonicalize: toUpperCase of the character).
Canonicalize(c) ==
    CASE c = "u" -> "U"
      [] c = "e" -> "E"
      [] c = "n" -> "N"
      [] OTHER -> c

-----------------------------------------------------------------------------
(* Own-property order of a plain object.  An object is modelled by its     *)
(* entries [key, value] in insertion (declaration) order, keys distinct.   *)
(* Object.entries lists the keys that are canonical array indices first,   *)
(* in ascending numeric order, and then the other keys in insertion order. *)

IsArrayIndex(key) ==
    /\ Len(key) >= 1
    /\ \A i \in 1..Len(key) : key[i] \in DecimalDigits
    /\ (Len(key) > 1 => key[1] /= "0")

RECURSIVE ToNumber(_)
ToNumber(key) ==
    IF key = <<>> THEN 0
    ELSE 10 * ToNumber(SubSeq(key, 1, Len(key) - 1)) + DigitValue(key[Len(key)])

RECURSIVE IndexEntriesAscending(_, _)
IndexEntriesAscending(obj, left) ==
    IF left = {} THEN <<>>
    ELSE LET m == CHOOSE i \in left :
                    \A j \in left : ToNumber(obj[i].key) <= ToNumber(obj[j].key)
         IN <<obj[m]>> \o IndexEntriesAscending(obj, left \ {m})

IsIndexEntry(e) == IsArrayIndex(e.key)

IsNamedEntry(e) == ~IsArrayIndex(e.key)

ObjectEntries(obj) ==
    IndexEntriesAscending(obj, {i \in 1..Len(obj) : IsIndexEntry(obj[i])})
        \o SelectSeq(obj, IsNamedEntry)

-----------------------------------------------------------------------------
(* new RegExp(source, 'i') and RegExp.prototype.test, for the part of the  *)
(* pattern syntax the model's patterns use: a literal character, `\c` (the *)
(* character c itself), `.`, `^`, `$`, and `*` after an atom.  `(` opens a *)
(* group; no pattern of the model closes one, so a pattern holding an      *)
(* unescaped `(` does not compile (SyntaxError), like a `*` with nothing   *)
(* to repeat and a `\` at the end of the pattern.                          *)

BadPattern == [ok |-> FALSE, toks |-> <<>>]

RECURSIVE ParseFrom(_, _)
ParseFrom(re, i) ==
    IF i > Len(re) THEN [ok |-> TRUE, toks |-> <<>>]
    ELSE LET c   == re[i]
             esc == c = "\\"
         IN IF esc /\ i = Len(re) THEN BadPattern
            ELSE IF c \in {"(", "*"} THEN BadPattern
            ELSE LET n    == IF esc THEN i + 2 ELSE i + 1
                     kind == IF esc THEN "lit"
                             ELSE IF c = "." THEN "any"
                             ELSE IF c = "^" THEN "bol"
                             ELSE IF c = "$" THEN "eol"
                             ELSE "lit"
                     ch   == IF esc THEN re[i + 1] ELSE c
                     star == n <= Len(re) /\ re[n] = "*"
                     rest == ParseFrom(re, IF star THEN n + 1 ELSE n)
                 IN IF star /\ kind \in {"bol", "eol"} THEN BadPattern
                    ELSE IF ~rest.ok THEN BadPattern
                    ELSE [ok   |-> TRUE,
                          toks |-> <<[k |-> kind, c |-> ch, star |-> star]>>
                                       \o rest.toks]

\* new RegExp(re, 'i') does not throw.
RegExpCompiles(re) == ParseFrom(re, 1).ok

\* One atom against one character, ignoring case.
AtomMatches(tok, ch) ==
    IF tok.k = "any" THEN TRUE
    ELSE Canonicalize(tok.c) = Canonicalize(ch)

RECURSIVE MatchFrom(_, _, _, _)
MatchFrom(toks, i, s, j) ==
    IF i > Len(toks) THEN TRUE
    ELSE LET tok == toks[i]
         IN CASE tok.k = "bol" -> j = 1 /\ MatchFrom(toks, i + 1, s, j)
              [] tok.k = "eol" -> j = Len(s) + 1 /\ MatchFrom(toks, i + 1, s, j)
              [] tok.star ->
                    \E k \in j..(Len(s) + 1) :
                        /\ \A m \in j..(k - 1) : AtomMatches(tok, s[m])
                        /\ MatchFrom(toks, i + 1, s, k)
              [] OTHER ->
                    /\ j <= Len(s)
                    /\ AtomMatches(tok, s[j])
                    /\ MatchFrom(toks, i + 1, s, j + 1)

\* new RegExp(re, 'i').test(s), for a pattern that compiles: a match may
\* start at any position of s.
RegExpTest(re, s) ==
    LET toks == ParseFrom(re, 1).toks
    IN \E j \in 1..(Len(s) + 1) : MatchFrom(toks, 1, s, j)

-----------------------------------------------------------------------------
(* Pattern Matcher and Rename Matcher                                      *)

\* A loop without the try: the first pattern that fails to compile ends
\* the search.
RECURSIVE matchCategoryFromUnguarded(_, _, _)
matchCategoryFromUnguarded(description, rules, i) ==
    IF i > Len(rules) THEN NullName
    ELSE IF ~RegExpCompiles(rules[i].pattern) THEN NullName
    ELSE IF RegExpTest(rules[i].pattern, description)
         THEN rules[i].category
         ELSE matchCategoryFromUnguarded(description, rules, i + 1)

RECURSIVE matchCategoryFrom(_, _, _)
matchCategoryFrom(description, rules, i) ==
    IF i > Len(rules) THEN NullName
    ELSE IF /\ RegExpCompiles(rules[i].pattern)
            /\ RegExpTest(rules[i].pattern, description)
         THEN rules[i].category
         ELSE matchCategoryFrom(description, rules, i + 1)

RECURSIVE matchCategoryLastFrom(_, _, _)
matchCategoryLastFrom(description, rules, i) ==
    IF i < 1 THEN NullName
    ELSE IF /\ RegExpCompiles(rules[i].pattern)
            /\ RegExpTest(rules[i].pattern, description)
         THEN rules[i].category
         ELSE matchCategoryLastFrom(description, rules, i - 1)

\* A matcher that lets a later matching rule overwrite an earlier one.
matchCategoryLastWins(description, rules) ==
    matchCategoryLastFrom(description, rules, Len(rules))

\* for (const rule of rules): the first rule whose pattern compiles and
\* tests true returns its category; a pattern that throws is skipped.
matchCategory(description, rules) == matchCategoryFrom(description, rules, 1)

\* The characters the first replace of matchRename escapes.
RegexSpecialChars == {".", "+", "^", "$", "{", "}", "(", ")", "|", "[", "]", "\\"}

RECURSIVE EscapeSpecial(_)
EscapeSpecial(s) ==
    IF s = <<>> THEN <<>>
    ELSE (IF Head(s) \in RegexSpecialChars THEN <<"\\", Head(s)>> ELSE <<Head(s)>>)
            \o EscapeSpecial(Tail(s))

RECURSIVE StarToDotStar(_)
StarToDotStar(s) ==
    IF s = <<>> THEN <<>>
    ELSE (IF Head(s) = "*" THEN <<".", "*">> ELSE <<Head(s)>>)
            \o StarToDotStar(Tail(s))

RECURSIVE QuestionToDot(_)
QuestionToDot(s) ==
    IF s = <<>> THEN <<>>
    ELSE (IF Head(s) = "?" THEN <<".">> ELSE <<Head(s)>>)
            \o QuestionToDot(Tail(s))

\* The three chained replaces, then `^${regexPattern}$`.
GlobToRegex(pattern) ==
    <<"^">> \o QuestionToDot(StarToDotStar(EscapeSpecial(pattern))) \o <<"$">>

RECURSIVE matchRenameFrom(_, _, _)
matchRenameFrom(description, entries, i) ==
    IF i > Len(entries) THEN NullStr
    ELSE LET regex == GlobToRegex(entries[i].key)
         IN IF RegExpCompiles(regex) /\ RegExpTest(regex, description)
            THEN entries[i].value
            ELSE matchRenameFrom(description, entries, i + 1)

\* A matcher that reports no rename when the replacement is the description.
matchRenameSuppressingNoOp(description, renameMap) ==
    LET newName == matchRenameFrom(description, ObjectEntries(renameMap), 1)
    IN IF newName = description THEN NullStr ELSE newName

\* for (const [pattern, newName] of Object.entries(renameMap))
matchRename(description, renameMap) ==
    matchRenameFrom(description, ObjectEntries(renameMap), 1)

-----------------------------------------------------------------------------
(* Installment Resolver                                                    *)

\* t matches /^\s*\d+\/\d+\s*$/ : white space, digits, "/", digits, white space.
IsInstallmentSuffix(t) ==
    \E a \in 0..Len(t), p \in 1..Len(t), b \in 1..(Len(t) + 1) :
        /\ a + 2 <= p
        /\ p + 2 <= b
        /\ t[p] = "/"
        /\ \A i \in 1..a : t[i] \in WhiteSpace
        /\ \A i \in (a + 1)..(p - 1) : t[i] \in DecimalDigits
        /\ \A i \in (p + 1)..(b - 1) : t[i] \in DecimalDigits
        /\ \A i \in b..Len(t) : t[i] \in WhiteSpace

\* s.replace(/\s*\d+\/\d+\s*$/, ''): the match starts at the leftmost
\* position from which the rest of s is an installment suffix.
StripInstallment(s) ==
    LET starts == {i \in 1..Len(s) : IsInstallmentSuffix(SubSeq(s, i, Len(s)))}
    IN IF starts = {} THEN s
       ELSE SubSeq(s, 1, (CHOOSE i \in starts : \A j \in starts : i <= j) - 1)

RECURSIVE TrimStart(_)
TrimStart(s) ==
    IF s /= <<>> /\ Head(s) \in WhiteSpace THEN TrimStart(Tail(s)) ELSE s

RECURSIVE TrimEnd(_)
TrimEnd(s) ==
    IF s /= <<>> /\ s[Len(s)] \in WhiteSpace
    THEN TrimEnd(SubSeq(s, 1, Len(s) - 1))
    ELSE s

Trim(s) == TrimEnd(TrimStart(s))

\* description.replace(/\s*\d+\/\d+\s*$/, '').trim()
BaseDescription(description) == Trim(StripInstallment(description))

\* A callback that forgets to compare total_installments.
IsPreviousInstallmentAnyTotal(transaction, txn) ==
    /\ txn.installment = transaction.installment - 1
    /\ BaseDescription(txn.description) = BaseDescription(transaction.description)

\* The callback of allTransactions.find in resolveInstallment.
IsPreviousInstallment(transaction, txn) ==
    /\ txn.installment = transaction.installment - 1
    /\ txn.total_installments = transaction.total_installments
    /\ BaseDescription(txn.description) = BaseDescription(transaction.description)

RECURSIVE FindPreviousFrom(_, _, _)
FindPreviousFrom(transaction, allTransactions, i) ==
    IF i > Len(allTransactions) THEN 0
    ELSE IF IsPreviousInstallment(transaction, allTransactions[i]) THEN i
    ELSE FindPreviousFrom(transaction, allTransactions, i + 1)

\* previousInstallment?.category_id ?? null
resolveInstallment(transaction, allTransactions) ==
    IF transaction.installment <= 1 THEN NullId
    ELSE LET i == FindPreviousFrom(transaction, allTransactions, 1)
         IN IF i = 0 THEN NullId ELSE allTransactions[i].category_id

\* The transactions of the invoices in scan order (outer loop over the
\* invoices, inner loop over invoice.transactions).
RECURSIVE ScanOrder(_)
ScanOrder(invoices) ==
    IF invoices = <<>> THEN <<>>
    ELSE Head(invoices).transactions \o ScanOrder(Tail(invoices))

\* A scan that passes over later installments only (`>` for `>=`).
IsPriorOrSameInstallment(transaction, txn) ==
    /\ txn.total_installments = transaction.total_installments
    /\ ~(txn.installment > transaction.installment)
    /\ BaseDescription(txn.description) = BaseDescription(transaction.description)
    /\ TruthyId(txn.category_id)

\* The three `continue` tests and the `if (txn.category_id)` of the scan.
IsPriorInstallment(transaction, txn) ==
    /\ txn.total_installments = transaction.total_installments
    /\ ~(txn.installment >= transaction.installment)
    /\ BaseDescription(txn.description) = BaseDescription(transaction.description)
    /\ TruthyId(txn.category_id)

RECURSIVE PriorCategoriesOf(_, _)
PriorCategoriesOf(transaction, txns) ==
    IF txns = <<>> THEN <<>>
    ELSE (IF IsPriorInstallment(transaction, Head(txns))
          THEN <<Head(txns).category_id>> ELSE <<>>)
            \o PriorCategoriesOf(transaction, Tail(txns))

\* counts: the Map of category -> count, its keys in first-set order.
RECURSIVE CountKeys(_)
CountKeys(cats) ==
    IF cats = <<>> THEN <<>>
    ELSE LET before == CountKeys(SubSeq(cats, 1, Len(cats) - 1))
             last   == cats[Len(cats)]
         IN IF \E i \in 1..Len(before) : before[i] = last
            THEN before ELSE Append(before, last)

CountOf(cats, cat) == Cardinality({i \in 1..Len(cats) : cats[i] = cat})

\* A mode loop that lets a later category with the same count win (`>=`).
RECURSIVE ModeFromLastSeen(_, _, _, _, _)
ModeFromLastSeen(cats, keys, i, maxCount, modeCategory) ==
    IF i > Len(keys) THEN modeCategory
    ELSE IF CountOf(cats, keys[i]) >= maxCount
         THEN ModeFromLastSeen(cats, keys, i + 1, CountOf(cats, keys[i]), keys[i])
         ELSE ModeFromLastSeen(cats, keys, i + 1, maxCount, modeCategory)

\* for (const [cat, count] of counts) if (count > maxCount) ...
RECURSIVE ModeFrom(_, _, _, _, _)
ModeFrom(cats, keys, i, maxCount, modeCategory) ==
    IF i > Len(keys) THEN modeCategory
    ELSE IF CountOf(cats, keys[i]) > maxCount
         THEN ModeFrom(cats, keys, i + 1, CountOf(cats, keys[i]), keys[i])
         ELSE ModeFrom(cats, keys, i + 1, maxCount, modeCategory)

\* findInstallmentCategory once getCachedInvoices has returned `invoices`.
findInstallmentCategoryIn(transaction, invoices) ==
    IF transaction.installment <= 1 THEN NullId
    ELSE LET priorCategories == PriorCategoriesOf(transaction, ScanOrder(invoices))
         IN IF Len(priorCategories) = 0 THEN NullId
            ELSE ModeFrom(priorCategories, CountKeys(priorCategories), 1, 0, NullId)

-----------------------------------------------------------------------------
(* Skip-Policy Evaluator                                                   *)

\* A timestamp string is modelled by what new Date(string) reads from it:
\* whether it parses, its wall-clock time and its UTC offset.  The time
\* value of the Date is the wall-clock time minus the offset; a string that
\* does not parse gives an Invalid Date (NaN).
DateValue(ts) == [nan |-> ~ts.valid, t |-> IF ts.valid THEN ts.wall - ts.offset ELSE 0]

\* a > b on two Dates: false when either is NaN.
DateGreater(a, b) == ~a.nan /\ ~b.nan /\ a.t > b.t

\* A policy that looks for a manual edit before it looks at the category.
shouldSkipManualEditFirst(transaction, suggestedCategoryId, force) ==
    IF suggestedCategoryId = NullId
    THEN [skip |-> TRUE, reason |-> "no_match"]
    ELSE IF /\ ~force
            /\ DateGreater(DateValue(transaction.updated_at),
                           DateValue(transaction.created_at))
    THEN [skip |-> TRUE, reason |-> "manual_edit"]
    ELSE IF transaction.category_id = suggestedCategoryId
    THEN [skip |-> TRUE, reason |-> "already_correct"]
    ELSE [skip |-> FALSE, reason |-> NullName]

\* A skip policy that never looks at the timestamps.
shouldSkipIgnoringEdits(transaction, suggestedCategoryId, force) ==
    IF suggestedCategoryId = NullId
    THEN [skip |-> TRUE, reason |-> "no_match"]
    ELSE IF transaction.category_id = suggestedCategoryId
    THEN [skip |-> TRUE, reason |-> "already_correct"]
    ELSE [skip |-> FALSE, reason |-> NullName]

\* A skip policy without the test for a category that is already right.
shouldSkipUnlessSame(transaction, suggestedCategoryId, force) ==
    IF suggestedCategoryId = NullId
    THEN [skip |-> TRUE, reason |-> "no_match"]
    ELSE IF ~force /\ DateGreater(DateValue(transaction.updated_at),
                                  DateValue(transaction.created_at))
    THEN [skip |-> TRUE, reason |-> "manual_edit"]
    ELSE [skip |-> FALSE, reason |-> NullName]

shouldSkip(transaction, suggestedCategoryId, force) ==
    IF suggestedCategoryId = NullId
    THEN [skip |-> TRUE, reason |-> "no_match"]
    ELSE IF transaction.category_id = suggestedCategoryId
    THEN [skip |-> TRUE, reason |-> "already_correct"]
    ELSE IF /\ ~force
            /\ DateGreater(DateValue(transaction.updated_at),
                           DateValue(transaction.created_at))
    THEN [skip |-> TRUE, reason |-> "manual_edit"]
    ELSE [skip |-> FALSE, reason |-> NullName]

-----------------------------------------------------------------------------
(* Category table and Tag Resolver                                         *)

\* A category group is the list of its entries [key |-> name, value |-> id]
\* in declaration order; category names are not array indices.
HasKey(group, name) == \E i \in 1..Len(group) : group[i].key = name

ValueOf(group, name) ==
    group[CHOOSE i \in 1..Len(group) : group[i].key = name].value

\* A lookup that returns the position of the entry, not its id.
getCategoryIdAsPosition(categoryName, categories) ==
    IF HasKey(categories.essencial, categoryName)
    THEN CHOOSE i \in 1..Len(categories.essencial) :
            categories.essencial[i].key = categoryName
    ELSE IF HasKey(categories.estilo_de_vida, categoryName)
    THEN CHOOSE i \in 1..Len(categories.estilo_de_vida) :
            categories.estilo_de_vida[i].key = categoryName
    ELSE NullId

\* A lookup that answers 0, "uncategorised", for a name the table lacks.
getCategoryIdOrZero(categoryName, categories) ==
    IF HasKey(categories.essencial, categoryName)
    THEN ValueOf(categories.essencial, categoryName)
    ELSE IF HasKey(categories.estilo_de_vida, categoryName)
    THEN ValueOf(categories.estilo_de_vida, categoryName)
    ELSE 0

getCategoryId(categoryName, categories) ==
    IF HasKey(categories.essencial, categoryName)
    THEN ValueOf(categories.essencial, categoryName)
    ELSE IF HasKey(categories.estilo_de_vida, categoryName)
    THEN ValueOf(categories.estilo_de_vida, categoryName)
    ELSE NullId

\* buildCategoryMap: id -> name; a later map.set of the same id overwrites.
buildCategoryMap(categories) ==
    LET all == categories.essencial \o categories.estilo_de_vida
        ids == {all[i].value : i \in 1..Len(all)}
    IN [id \in ids |->
            all[CHOOSE i \in 1..Len(all) :
                    /\ all[i].value = id
                    /\ \A j \in 1..Len(all) : all[j].value = id => j <= i].key]

\* getTagsForCategory, given the category map getCategoryMap() returns.
getTagsForCategory(categoryId, tags, categoryMap) ==
    IF ~TruthyId(categoryId) THEN <<>>
    ELSE IF categoryId \notin DOMAIN categoryMap THEN <<>>
    ELSE IF ~TruthyName(categoryMap[categoryId]) THEN <<>>
    ELSE IF categoryMap[categoryId] \in DOMAIN tags
    THEN tags[categoryMap[categoryId]]
    ELSE <<>>

-----------------------------------------------------------------------------
(* Batch Processor: one iteration of the loop of processBatch              *)

\* `changes: undefined`, and the empty `changes` object before staging.
NoChanges ==
    [defined |-> FALSE, category_id |-> NullId, description |-> NullStr,
     tags |-> NullTags]

\* Object.keys(changes).length
KeyCount(changes) ==
    (IF changes.category_id /= NullId THEN 1 ELSE 0)
        + (IF changes.description /= NullStr THEN 1 ELSE 0)
        + (IF changes.tags /= NullTags THEN 1 ELSE 0)

HasContext(opts) == TruthyId(opts.cardId) /\ TruthyId(opts.invoiceId)

\* A mode test that lets tagsOnly run the category logic.
NormalModeUnlessRenameOnly(opts) == ~opts.renameOnly

NormalMode(opts) == ~opts.renameOnly /\ ~opts.tagsOnly

\* A suggestion that asks the pattern rules first and the installments only
\* when no rule gives a category.
SuggestCategoryPatternFirst(txn, inheritedCategoryId, cfg) ==
    LET categoryName == matchCategory(txn.description, cfg.rules)
        id == IF TruthyName(categoryName)
              THEN getCategoryId(categoryName, cfg.categories) ELSE NullId
    IN IF TruthyId(id) THEN [id |-> id, source |-> "pattern"]
       ELSE IF TruthyId(inheritedCategoryId)
       THEN [id |-> inheritedCategoryId, source |-> "installment"]
       ELSE [id |-> NullId, source |-> IF TruthyName(categoryName)
                                       THEN "pattern" ELSE NullName]

\* Steps 1 and 2 of the loop body: installment inheritance first, then
\* pattern matching; the suggested id and the recorded source.
SuggestCategory(txn, inheritedCategoryId, cfg) ==
    IF TruthyId(inheritedCategoryId)
    THEN [id |-> inheritedCategoryId, source |-> "installment"]
    ELSE LET categoryName == matchCategory(txn.description, cfg.rules)
         IN IF TruthyName(categoryName)
            THEN [id     |-> getCategoryId(categoryName, cfg.categories),
                  source |-> "pattern"]
            ELSE [id |-> NullId, source |-> NullName]

\* A rename step that stages whatever replacement matches, changed or not.
StageDescriptionUnconditional(txn, opts, cfg) ==
    IF opts.tagsOnly THEN NullStr
    ELSE LET newDescription == matchRename(txn.description, cfg.rename)
         IN IF TruthyStr(newDescription) THEN newDescription ELSE NullStr

\* Step 3: the description change staged, if any.
StageDescription(txn, opts, cfg) ==
    IF opts.tagsOnly THEN NullStr
    ELSE LET newDescription == matchRename(txn.description, cfg.rename)
         IN IF TruthyStr(newDescription) /\ newDescription /= txn.description
            THEN newDescription
            ELSE NullStr

\* A tag step that reads the suggested category in every mode.
StageTagsFromSuggestion(txn, suggestedCategoryId, opts, cfg, categoryMap) ==
    LET tags == IF TruthyId(suggestedCategoryId)
                THEN getTagsForCategory(suggestedCategoryId, cfg.tags, categoryMap)
                ELSE <<>>
    IN IF Len(tags) > 0 THEN tags ELSE NullTags

\* Step 4: the tags change staged, if any.
StageTags(txn, suggestedCategoryId, opts, cfg, categoryMap) ==
    LET tags == IF opts.tagsOnly
                THEN getTagsForCategory(txn.category_id, cfg.tags, categoryMap)
                ELSE IF TruthyId(suggestedCategoryId)
                THEN getTagsForCategory(suggestedCategoryId, cfg.tags, categoryMap)
                ELSE <<>>
    IN IF Len(tags) > 0 THEN tags ELSE NullTags

\* A classification that looks for a description, then for a category, and
\* forgets that tags alone are a change.
ClassifyActionIgnoringTags(changes) ==
    IF TruthyStr(changes.description) /\ ~TruthyId(changes.category_id)
    THEN "rename"
    ELSE IF TruthyId(changes.category_id) THEN "update"
    ELSE "skip"

\* A classification that calls every change of description a rename.
ClassifyActionRenameFirst(changes) ==
    IF KeyCount(changes) > 0
    THEN IF TruthyStr(changes.description) THEN "rename" ELSE "update"
    ELSE "skip"

\* "Determine action"
ClassifyAction(changes) ==
    IF KeyCount(changes) > 0
    THEN IF TruthyStr(changes.description) /\ ~TruthyId(changes.category_id)
         THEN "rename"
         ELSE "update"
    ELSE "skip"

\* A skip result that still carries the rename of the description.
PolicySkipResultRenamed(txn, skipResult) ==
    LET newName == matchRename(txn.description,
                               <<[key |-> <<"u", "*">>, value |-> <<"U">>]>>)
    IN [transaction |-> txn, action |-> "skip",
        changes |-> IF newName /= NullStr /\ newName /= txn.description
                    THEN [NoChanges EXCEPT !.defined = TRUE, !.description = newName]
                    ELSE NoChanges,
        reason |-> skipResult.reason]

\* A skip result that reports a manual edit as a conflict.
PolicySkipResultConflict(txn, skipResult) ==
    [transaction |-> txn,
     action |-> IF skipResult.reason = "manual_edit" THEN "conflict" ELSE "skip",
     changes |-> NoChanges,
     reason |-> skipResult.reason]

\* The result pushed when the skip policy says skip.
PolicySkipResult(txn, skipResult) ==
    [transaction |-> txn, action |-> "skip", changes |-> NoChanges,
     reason |-> skipResult.reason]

\* The result pushed at the end of the loop body.
FinalResult(txn, staged, categorySource) ==
    [transaction |-> txn,
     action      |-> ClassifyAction(staged),
     changes     |-> IF KeyCount(staged) > 0
                     THEN [staged EXCEPT !.defined = TRUE]
                     ELSE NoChanges,
     reason      |-> categorySource]

\* The loop body for one transaction, given what the installment lookup
\* returned and the category map in use.
ProcessTransaction(txn, inheritedCategoryId, opts, cfg, categoryMap) ==
    LET suggestion == IF NormalMode(opts)
                      THEN SuggestCategory(txn, inheritedCategoryId, cfg)
                      ELSE [id |-> NullId, source |-> NullName]
        skipResult == shouldSkip(txn, suggestion.id, opts.force)
        staged     == [defined     |-> FALSE,
                       category_id |-> IF NormalMode(opts) /\ TruthyId(suggestion.id)
                                       THEN suggestion.id ELSE NullId,
                       description |-> StageDescription(txn, opts, cfg),
                       tags        |-> StageTags(txn, suggestion.id, opts, cfg,
                                                 categoryMap)]
    IN IF NormalMode(opts) /\ skipResult.skip
       THEN PolicySkipResult(txn, skipResult)
       ELSE FinalResult(txn, staged, suggestion.source)

\* Whether the loop body reaches getCategoryMap() for this transaction.
ReadsCategoryMap(txn, result, opts) ==
    IF opts.tagsOnly THEN TruthyId(txn.category_id)
    ELSE /\ NormalMode(opts)
         /\ result.changes.defined
         /\ TruthyId(result.changes.category_id)

-----------------------------------------------------------------------------
(* The remote API as the processor sees it, and the invoice cache          *)

\* A timestamp string that parses, at UTC.
Timestamp(t) == [valid |-> TRUE, wall |-> t, offset |-> 0]

Txn(id, description, installment, total, categoryId, updatedAt) ==
    [id |-> id, description |-> description, installment |-> installment,
     total_installments |-> total, category_id |-> categoryId,
     created_at |-> Timestamp(1), updated_at |-> Timestamp(updatedAt)]

\* The invoices of card 1 on the server, in the order the API lists them.
\* Dates are day numbers: localeCompare on two ISO dates orders them as the
\* numbers do.  Invoice 3 is the one being processed; invoice 4 is dated
\* after it.
RemoteInvoices ==
    << [id |-> 1, date |-> 10, credit_card_id |-> 1,
        transactions |-> << Txn(11, <<"u", "e", " ", "1", "/", "2">>, 1, 2, 9, 1) >>],
       [id |-> 4, date |-> 40, credit_card_id |-> 1,
        transactions |-> << Txn(41, <<"u", "e", " ", "1", "/", "2">>, 1, 2, 6, 1),
                            Txn(42, <<"u", "e", " ", "1", "/", "2">>, 1, 2, 6, 1) >>],
       [id |-> 3, date |-> 30, credit_card_id |-> 1,
        transactions |-> << Txn(31, <<"u", "e", " ", "2", "/", "2">>, 2, 2, 0, 1) >>],
       [id |-> 2, date |-> 20, credit_card_id |-> 1,
        transactions |-> << Txn(21, <<"U">>, 1, 1, 5, 1) >>] >>

\* api.getInvoices(cardId): the list, "without transactions".
ApiGetInvoices(cardId) ==
    LET ofCard == SelectSeq(RemoteInvoices, LAMBDA inv : inv.credit_card_id = cardId)
    IN [i \in 1..Len(ofCard) |-> [ofCard[i] EXCEPT !.transactions = <<>>]]

\* api.getInvoice(cardId, invoiceId): the invoice with its transactions.
ApiGetInvoice(cardId, invoiceId) ==
    RemoteInvoices[CHOOSE i \in 1..Len(RemoteInvoices) :
                        RemoteInvoices[i].id = invoiceId]

\* Array.prototype.sort is stable: an invoice goes after every invoice
\* already placed whose date is not earlier than its own.
RECURSIVE SortByDateDescending(_)
SortByDateDescending(list) ==
    IF list = <<>> THEN <<>>
    ELSE LET sorted == SortByDateDescending(SubSeq(list, 1, Len(list) - 1))
             x      == list[Len(list)]
             n      == Cardinality({i \in 1..Len(sorted) : sorted[i].date >= x.date})
         IN SubSeq(sorted, 1, n) \o <<x>> \o SubSeq(sorted, n + 1, Len(sorted))

\* sorted.findIndex(inv => inv.id === currentInvoiceId), 1-based, 0 for -1.
FindIndexById(sorted, invoiceId) ==
    IF \E i \in 1..Len(sorted) : sorted[i].id = invoiceId
    THEN CHOOSE i \in 1..Len(sorted) :
            /\ sorted[i].id = invoiceId
            /\ \A j \in 1..(i - 1) : sorted[j].id /= invoiceId
    ELSE 0

\* "Get up to 12 invoices starting from current (inclusive)"
InvoiceWindow == 12

MinOf(a, b) == IF a <= b THEN a ELSE b

\* A selection that always starts at the newest invoice.
RelevantInvoicesFromNewest(invoiceList, currentInvoiceId) ==
    LET sorted == SortByDateDescending(invoiceList)
    IN SubSeq(sorted, 1, MinOf(InvoiceWindow, Len(sorted)))

RelevantInvoices(invoiceList, currentInvoiceId) ==
    LET sorted     == SortByDateDescending(invoiceList)
        currentIdx == FindIndexById(sorted, currentInvoiceId)
    IN IF currentIdx >= 1
       THEN SubSeq(sorted, currentIdx,
                   MinOf(currentIdx + InvoiceWindow - 1, Len(sorted)))
       ELSE SubSeq(sorted, 1, MinOf(InvoiceWindow, Len(sorted)))

\* The invoice cache: `null`, or a Map from card id to the hydrated invoices.
NullCache == [null |-> TRUE, cards |-> {}, invoices |-> <<>>]

CacheHas(cache, cardId) == ~cache.null /\ cardId \in cache.cards

\* What a cache miss stores for the card: every relevant invoice, hydrated.
FullInvoices(cardId, currentInvoiceId) ==
    LET relevant == RelevantInvoices(ApiGetInvoices(cardId), currentInvoiceId)
    IN [i \in 1..Len(relevant) |-> ApiGetInvoice(cardId, relevant[i].id)]

\* A request the API client sent: the endpoint, the card and the invoice or
\* transaction it names (0 for none), and whether the response was ok.
ApiCall(op, card, id, ok) == [op |-> op, card |-> card, id |-> id, ok |-> ok]

\* The requests a cache miss sends.
FetchCalls(cardId, currentInvoiceId) ==
    LET relevant == RelevantInvoices(ApiGetInvoices(cardId), currentInvoiceId)
    IN <<ApiCall("getInvoices", cardId, 0, TRUE)>>
        \o [i \in 1..Len(relevant) |->
                ApiCall("getInvoice", cardId, relevant[i].id, TRUE)]

\* A lookup that returns the hydrated invoices without keeping them under
\* the card.
CacheAfterGetForgetting(cache, cardId, currentInvoiceId) ==
    [null |-> FALSE, cards |-> {},
     invoices |-> FullInvoices(cardId, currentInvoiceId)]

\* invoiceCache after getCachedInvoices(cardId, currentInvoiceId) returned.
\* The model has one card, so the Map holds at most its entry.
CacheAfterGet(cache, cardId, currentInvoiceId) ==
    IF CacheHas(cache, cardId) THEN cache
    ELSE [null |-> FALSE, cards |-> {cardId},
          invoices |-> FullInvoices(cardId, currentInvoiceId)]

\* Whether findInstallmentCategory reaches getCachedInvoices.
NeedsInvoices(txn) == ~(txn.installment <= 1)

\* A cache an earlier invocation left behind: one invoice of the card with a
\* first installment in a category of its own.
StaleCache ==
    [null |-> FALSE, cards |-> {1},
     invoices |-> << [id |-> 1, date |-> 10, credit_card_id |-> 1,
                      transactions |->
                        << Txn(11, <<"u", "e", " ", "1", "/", "2">>, 1, 2, 7, 1) >>] >>]

-----------------------------------------------------------------------------
(* The API client (class OrganizzeAPI)                                     *)

\* private minDelay = 200; // ms between requests
minDelay == 200

\* parseInt(res.headers.get('Retry-After') || '5')
DefaultRetryAfter == 5

\* The callers of the client: three api methods, each called once.
Callers == {"getTransactions", "getAccounts", "getCreditCards"}

\* Date.now() when the process starts using the client, in ms.
StartClock == 1000 * 1000

\* A caller before its call: `at` is a timer's due time or the time the
\* request was sent, `waits` the sleeps after its 429 responses.
IdleCaller == [state |-> "idle", at |-> 0, waits |-> <<>>]

\* new OrganizzeAPI(): lastRequest = 0; nothing sent.
NewClient ==
    [clock |-> StartClock, lastRequest |-> 0,
     callers |-> [p \in Callers |-> IdleCaller], sent |-> <<>>]

-----------------------------------------------------------------------------
(* The configuration files                                                 *)

\* categories.yaml
Categories ==
    [essencial      |-> << [key |-> "food", value |-> 5] >>,
     estilo_de_vida |-> << [key |-> "fun", value |-> 6] >>]

\* rules.yaml: the first pattern does not compile; the last rule names a
\* category that categories.yaml does not hold.
Rules ==
    << [pattern |-> <<"(">>, category |-> "fun"],
       [pattern |-> <<"u", "e">>, category |-> "food"],
       [pattern |-> <<"u">>, category |-> "ghost"] >>

\* rename.yaml
Rename == << [key |-> <<"u", "*">>, value |-> <<"U">>] >>

\* tags.yaml: "fun" has no tags.
Tags == [c \in {"food"} |-> <<"essential">>]

\* loadAllConfig()
LoadAllConfig ==
    [categories |-> Categories, rules |-> Rules, rename |-> Rename, tags |-> Tags]

\* The ids of the CategoryTable.
CategoryTableIds(categories) ==
    {categories.essencial[i].value : i \in 1..Len(categories.essencial)}
        \cup {categories.estilo_de_vida[i].value :
                i \in 1..Len(categories.estilo_de_vida)}

-----------------------------------------------------------------------------
(* processBatch                                                            *)

\* Longest batch the model processes.
MaxBatch == 2

\* Descriptions of the batch, each with the installment fields the bank
\* gives a transaction of that description.
BatchShapes ==
    { [description |-> <<"U">>, installment |-> 1, total |-> 1],
      [description |-> <<"u", "e", " ", "1", "/", "2">>, installment |-> 1, total |-> 2],
      [description |-> <<"u", "e", " ", "2", "/", "2">>, installment |-> 2, total |-> 2] }

\* Category ids a transaction may carry: none (0), one of the table (5) and
\* one the table does not hold (9).
BatchCategoryIds == {0, 5, 9}

\* updated_at of a transaction created at 1: untouched, or edited later.
BatchUpdatedAt == {1, 2}

\* The transactions of a batch: untouched ones in every category, edited
\* ones without a category, and an edited one in the category its rule
\* gives.
BatchTransactions ==
    { Txn(0, sh.description, sh.installment, sh.total, cu[1], cu[2]) :
        sh \in BatchShapes,
        cu \in { x \in BatchCategoryIds \X BatchUpdatedAt : x[2] = 1 \/ x[1] = 0 } }
    \cup { Txn(0, <<"u", "e", " ", "1", "/", "2">>, 1, 2, 5, 2) }

\* The batches: every sequence of at most MaxBatch transactions, ids 1..n.
Batches ==
    UNION { { [i \in 1..n |-> [b[i] EXCEPT !.id = i]] :
                b \in [1..n -> BatchTransactions] } : n \in 0..MaxBatch }

\* No card/invoice context, or card 1 with invoice 3.
Contexts == { [cardId |-> NullId, invoiceId |-> NullId],
              [cardId |-> 1, invoiceId |-> 3] }

OptionSets ==
    { [apply |-> a, force |-> f, renameOnly |-> r, tagsOnly |-> t,
       cardId |-> c.cardId, invoiceId |-> c.invoiceId] :
        a \in {FALSE}, f \in BOOLEAN, r \in BOOLEAN, t \in BOOLEAN, c \in Contexts }

\* No helper call is under way.
HarnessIdle == fn = "none" /\ args = <<>> /\ ret = [done |-> FALSE]

\* processBatch(transactions, options) has been called; the module-level
\* caches hold what the process left there before.  Invoices are cached
\* only by calls with a card and an invoice, and a process that makes such
\* calls is the one that may have left some.
Init ==
    /\ transactions \in Batches
    /\ options \in OptionSets
    /\ config = LoadAllConfig
    /\ results = <<>>
    /\ pc = "start"
    /\ invoiceCache \in IF HasContext(options) THEN {NullCache, StaleCache}
                        ELSE {NullCache}
    /\ categoryMapCache = [null |-> TRUE, map |-> <<>>]
    /\ apiCalls = <<>>
    /\ applied = 0
    /\ cursor = 0
    /\ HarnessIdle
    /\ client = NewClient

\* results.unshift(result): the newest result first.
UnshiftResult(rs, result) == <<result>> \o rs

\* results.push(result)
PushResult(rs, result) == Append(rs, result)

\* pc after a result was pushed.
AfterPush(n) == IF n >= Len(transactions) THEN "done" ELSE "loop"

\* A batch start that leaves the invoice cache as it finds it.
BatchStartKeepingCache ==
    /\ pc = "start"
    /\ config' = LoadAllConfig
    /\ results' = <<>>
    /\ pc' = AfterPush(0)
    /\ UNCHANGED <<transactions, options, invoiceCache, categoryMapCache,
                   apiCalls, applied, cursor, fn, args, ret, client>>

\* loadAllConfig(), results = [], and clearInvoiceCache() when the options
\* carry a card and an invoice.
BatchStart ==
    /\ pc = "start"
    /\ config' = LoadAllConfig
    /\ results' = <<>>
    /\ invoiceCache' = IF HasContext(options) THEN NullCache ELSE invoiceCache
    /\ pc' = AfterPush(0)
    /\ UNCHANGED <<transactions, options, categoryMapCache, apiCalls, applied,
                   cursor, fn, args, ret, client>>

\* Whether this iteration calls getCachedInvoices.
UsesCache(txn) == NormalMode(options) /\ HasContext(options) /\ NeedsInvoices(txn)

\* A same-batch lookup that sees the categories staged so far in place of
\* the ones the transactions came with.
InheritedCategoryIdFromStaged(txn, cache) ==
    IF ~NormalMode(options) THEN NullId
    ELSE IF HasContext(options)
    THEN IF NeedsInvoices(txn)
         THEN findInstallmentCategoryIn(txn, cache.invoices)
         ELSE NullId
    ELSE resolveInstallment(txn,
            [j \in 1..Len(transactions) |->
                IF j <= Len(results) /\ results[j].changes.category_id /= NullId
                THEN [transactions[j] EXCEPT
                        !.category_id = results[j].changes.category_id]
                ELSE transactions[j]])

\* What the installment lookup of this iteration returns.
InheritedCategoryId(txn, cache) ==
    IF ~NormalMode(options) THEN NullId
    ELSE IF HasContext(options)
    THEN IF NeedsInvoices(txn)
         THEN findInstallmentCategoryIn(txn, cache.invoices)
         ELSE NullId
    ELSE resolveInstallment(txn, transactions)

\* getCategoryMap(): the cached map, built on first use.
CategoryMapInUse == 
    IF categoryMapCache.null THEN buildCategoryMap(Categories)
    ELSE categoryMapCache.map

\* One iteration of `for (const txn of transactions)`.
ProcessNext ==
    /\ pc = "loop"
    /\ Len(results) < Len(transactions)
    /\ LET txn    == transactions[Len(results) + 1]
           cache  == IF UsesCache(txn)
                     THEN CacheAfterGet(invoiceCache, options.cardId, options.invoiceId)
                     ELSE invoiceCache
           result == ProcessTransaction(txn, InheritedCategoryId(txn, cache),
                                        options, config, CategoryMapInUse)
       IN /\ invoiceCache' = cache
          /\ apiCalls' = IF UsesCache(txn) /\ ~CacheHas(invoiceCache, options.cardId)
                         THEN apiCalls \o FetchCalls(options.cardId, options.invoiceId)
                         ELSE apiCalls
          /\ categoryMapCache' = IF ReadsCategoryMap(txn, result, options)
                                 THEN [null |-> FALSE, map |-> CategoryMapInUse]
                                 ELSE categoryMapCache
          /\ results' = PushResult(results, result)
          /\ pc' = AfterPush(Len(results) + 1)
    /\ UNCHANGED <<transactions, options, config, applied, cursor, fn, args, ret, client>>

\* The iteration whose invoice fetch fails: api.getInvoices throws and
\* processBatch rejects, returning no results.
ProcessNextRejected ==
    /\ pc = "loop"
    /\ Len(results) < Len(transactions)
    /\ UsesCache(transactions[Len(results) + 1])
    /\ ~CacheHas(invoiceCache, options.cardId)
    /\ invoiceCache' = [null |-> FALSE, cards |-> {}, invoices |-> <<>>]
    /\ apiCalls' = Append(apiCalls, ApiCall("getInvoices", options.cardId, 0, FALSE))
    /\ pc' = "rejected"
    /\ UNCHANGED <<transactions, options, config, results, categoryMapCache,
                   applied, cursor, fn, args, ret, client>>

Next == BatchStart \/ ProcessNext \/ ProcessNextRejected

Spec == Init /\ [][Next]_vars

-----------------------------------------------------------------------------
(* The update command (commands/update.ts), from the fetch on               *)

\* What the fetch of the command may return: transactions that the rules
\* categorize, rename, inherit or leave alone.
UpdateTransactions ==
    { Txn(0, sh.description, sh.installment, sh.total, 0, u) :
        sh \in BatchShapes, u \in BatchUpdatedAt }

UpdateBatches ==
    UNION { { [i \in 1..n |-> [b[i] EXCEPT !.id = i]] :
                b \in [1..n -> UpdateTransactions] } : n \in 0..MaxBatch }

\* The flags of the command line; the command passes no card and no invoice
\* to processBatch.
UpdateOptionSets ==
    { [apply |-> a, force |-> f, renameOnly |-> r, tagsOnly |-> t,
       cardId |-> NullId, invoiceId |-> NullId] :
        a \in BOOLEAN, f \in BOOLEAN, r \in BOOLEAN, t \in BOOLEAN }

InitUpdate ==
    /\ transactions = <<>>
    /\ options \in UpdateOptionSets
    /\ config = LoadAllConfig
    /\ results = <<>>
    /\ pc = "fetch"
    /\ invoiceCache = NullCache
    /\ categoryMapCache = [null |-> TRUE, map |-> <<>>]
    /\ apiCalls = <<>>
    /\ applied = 0
    /\ cursor = 0
    /\ HarnessIdle
    /\ client = NewClient

\* Step 4: the transactions arrive and processBatch is called with them.
CmdFetch ==
    /\ pc = "fetch"
    /\ \E b \in UpdateBatches : transactions' = b
    /\ apiCalls' = Append(apiCalls, ApiCall("getTransactions", 0, 0, TRUE))
    /\ pc' = "start"
    /\ UNCHANGED <<options, config, results, invoiceCache, categoryMapCache,
                   applied, cursor, fn, args, ret, client>>

\* Step 4 when the fetch throws: the error is printed and the process exits.
CmdFetchFails ==
    /\ pc = "fetch"
    /\ apiCalls' = Append(apiCalls, ApiCall("getTransactions", 0, 0, FALSE))
    /\ pc' = "exit"
    /\ UNCHANGED <<transactions, options, config, results, invoiceCache,
                   categoryMapCache, applied, cursor, fn, args, ret, client>>

\* A command that writes whatever the flag says.
ApplyAlways(opts) == TRUE

\* Step 6: `if (options.apply)`
ApplyRequested(opts) == opts.apply

\* processBatch has returned: the apply loop starts, or is passed over.
CmdAfterProcess ==
    /\ pc = "done"
    /\ pc' = IF ApplyRequested(options) THEN "apply" ELSE "summary"
    /\ applied' = 0
    /\ cursor' = 0
    /\ UNCHANGED <<transactions, options, config, results, invoiceCache,
                   categoryMapCache, apiCalls, fn, args, ret, client>>

\* The test of the apply loop on one result.
IsApplicable(result) ==
    result.changes.defined /\ result.action \in {"update", "rename"}

\* An apply loop without the try: the first call that throws ends the loop.
CmdApplyNextStoppingOnFailure ==
    /\ pc = "apply"
    /\ cursor < Len(results)
    /\ LET result == results[cursor + 1]
       IN \/ /\ ~IsApplicable(result)
             /\ UNCHANGED <<apiCalls, applied, pc>>
          \/ /\ IsApplicable(result)
             /\ apiCalls' = Append(apiCalls,
                    ApiCall("updateTransaction", 0, result.transaction.id, TRUE))
             /\ applied' = applied + 1
             /\ UNCHANGED pc
          \/ /\ IsApplicable(result)
             /\ apiCalls' = Append(apiCalls,
                    ApiCall("updateTransaction", 0, result.transaction.id, FALSE))
             /\ pc' = "summary"
             /\ UNCHANGED applied
    /\ cursor' = cursor + 1
    /\ UNCHANGED <<transactions, options, config, results, invoiceCache,
                   categoryMapCache, fn, args, ret, client>>

\* One iteration of `for (const result of results)`: a result without
\* changes is passed over; for the others api.updateTransaction is awaited
\* and either resolves (applied++) or throws (the error is printed).
CmdApplyNext ==
    /\ pc = "apply"
    /\ cursor < Len(results)
    /\ LET result == results[cursor + 1]
       IN \/ /\ ~IsApplicable(result)
             /\ UNCHANGED <<apiCalls, applied>>
          \/ /\ IsApplicable(result)
             /\ apiCalls' = Append(apiCalls,
                    ApiCall("updateTransaction", 0, result.transaction.id, TRUE))
             /\ applied' = applied + 1
          \/ /\ IsApplicable(result)
             /\ apiCalls' = Append(apiCalls,
                    ApiCall("updateTransaction", 0, result.transaction.id, FALSE))
             /\ UNCHANGED applied
    /\ cursor' = cursor + 1
    /\ UNCHANGED <<transactions, options, config, results, pc, invoiceCache,
                   categoryMapCache, fn, args, ret, client>>

\* The apply loop is over: "Applied n changes", then the summary.
CmdApplyDone ==
    /\ pc = "apply"
    /\ cursor = Len(results)
    /\ pc' = "summary"
    /\ UNCHANGED <<transactions, options, config, results, invoiceCache,
                   categoryMapCache, apiCalls, applied, cursor, fn, args, ret, client>>

NextUpdate ==
    \/ CmdFetch
    \/ CmdFetchFails
    \/ BatchStart
    \/ ProcessNext
    \/ CmdAfterProcess
    \/ CmdApplyNext
    \/ CmdApplyDone

SpecUpdate == InitUpdate /\ [][NextUpdate]_vars

\* The updateTransaction requests sent so far.
UpdateCalls == SelectSeq(apiCalls, LAMBDA c : c.op = "updateTransaction")

-----------------------------------------------------------------------------
(* The helper functions called on their own                                *)

\* No batch and no command is under way.
BatchIdle ==
    /\ transactions = <<>>
    /\ options = [apply |-> FALSE, force |-> FALSE, renameOnly |-> FALSE,
                  tagsOnly |-> FALSE, cardId |-> NullId, invoiceId |-> NullId]
    /\ config = LoadAllConfig
    /\ results = <<>>
    /\ pc = "idle"
    /\ invoiceCache = NullCache
    /\ categoryMapCache = [null |-> TRUE, map |-> <<>>]
    /\ apiCalls = <<>>
    /\ applied = 0
    /\ cursor = 0
    /\ client = NewClient

Pending == [done |-> FALSE]

Returned(value) == [done |-> TRUE, value |-> value]

\* ---- shouldSkip ----

\* Timestamp strings: wall-clock times 1 and 2 at UTC offsets 0 and 1, and a
\* string that does not parse.
SkipTimestamps ==
    { [valid |-> TRUE, wall |-> w, offset |-> o] : w \in {1, 2}, o \in {0, 1} }
        \cup { [valid |-> FALSE, wall |-> 0, offset |-> 0] }

SkipCategoryIds == {0, 5, 6}

SkipTransactions ==
    { [id |-> 1, description |-> <<"U">>, installment |-> 1,
       total_installments |-> 1, category_id |-> c, created_at |-> a,
       updated_at |-> u] :
        c \in SkipCategoryIds, a \in SkipTimestamps, u \in SkipTimestamps }

InitSkip ==
    /\ BatchIdle
    /\ fn = "shouldSkip"
    /\ args \in [transaction : SkipTransactions,
                 suggestedCategoryId : SkipCategoryIds \cup {NullId},
                 force : BOOLEAN]
    /\ ret = Pending

CallShouldSkip ==
    /\ fn = "shouldSkip"
    /\ ~ret.done
    /\ ret' = Returned(shouldSkip(args.transaction, args.suggestedCategoryId,
                                  args.force))
    /\ UNCHANGED <<batchVars, fn, args, client>>

NextSkip == CallShouldSkip

SpecSkip == InitSkip /\ [][NextSkip]_vars

\* ---- matchCategory ----

\* Longest rule list.
MaxRules == 2

\* Rule patterns: literal text, and two patterns that do not compile.
RulePatterns ==
    { <<"u">>, <<"U", "e">>, <<"e">>, <<"(">>, <<"u", "(">> }

RuleCategories == {"transport", "food"}

RuleSet == { [pattern |-> p, category |-> c] : p \in RulePatterns, c \in RuleCategories }

RuleLists == UNION { [1..n -> RuleSet] : n \in 0..MaxRules }

CategoryDescriptions ==
    { <<>>, <<"U">>, <<"u", "E">>, <<"n", "u", "e", "n">>, <<"e", "n", "u">>,
      <<"n">>, <<"e", "(">> }

InitCategory ==
    /\ BatchIdle
    /\ fn = "matchCategory"
    /\ args \in [description : CategoryDescriptions, rules : RuleLists]
    /\ ret = Pending

CallMatchCategory ==
    /\ fn = "matchCategory"
    /\ ~ret.done
    /\ ret' = Returned(matchCategory(args.description, args.rules))
    /\ UNCHANGED <<batchVars, fn, args, client>>

NextCategory == CallMatchCategory

SpecCategory == InitCategory /\ [][NextCategory]_vars

\* ---- matchRename ----

\* Longest rename map.
MaxRenames == 2

\* Rename patterns: globs, plain text, regex metacharacters, and a key that
\* is an array index.
RenamePatterns ==
    { <<"u", "*">>, <<"U">>, <<"?">>, <<"1">>, <<"u", ".">>, <<"*", "e">>,
      <<"(">> }

RenameValues == { <<"U">>, <<"n">> }

RenameEntries == { [key |-> k, value |-> v] : k \in RenamePatterns, v \in RenameValues }

\* The rename maps: entries in declaration order, no key twice.
RenameMaps ==
    UNION { { m \in [1..n -> RenameEntries] :
                \A i, j \in 1..n : m[i].key = m[j].key => i = j } :
            n \in 0..MaxRenames }

RenameDescriptions ==
    { <<>>, <<"U">>, <<"u", "e">>, <<"1">>, <<"n", "u">>, <<"u", "n">>,
      <<"u", ".">>, <<"n", "e">>, <<"(">> }

InitRename ==
    /\ BatchIdle
    /\ fn = "matchRename"
    /\ args \in [description : RenameDescriptions, renameMap : RenameMaps]
    /\ ret = Pending

CallMatchRename ==
    /\ fn = "matchRename"
    /\ ~ret.done
    /\ ret' = Returned(matchRename(args.description, args.renameMap))
    /\ UNCHANGED <<batchVars, fn, args, client>>

NextRename == CallMatchRename

SpecRename == InitRename /\ [][NextRename]_vars

\* ---- both matchers ----

InitPatterns == InitCategory \/ InitRename

NextPatterns == CallMatchCategory \/ CallMatchRename

SpecPatterns == InitPatterns /\ [][NextPatterns]_vars

\* ---- resolveInstallment and findInstallmentCategory ----

\* Transactions of the purchase "n" in 3 installments, of another purchase
\* "m" in 3 installments, and of a purchase "n" in 2 installments; the
\* descriptions carry their suffixes in different spellings.
InstallmentSeries ==
    { [description |-> <<"n", "1", "/", "3", " ">>, total |-> 3],
      [description |-> <<"m", " ", "1", "/", "3">>, total |-> 3],
      [description |-> <<" ", "n", " ", "1", "/", "2">>, total |-> 2] }

InstallmentNumbers == {1, 2, 3}

InstallmentCategoryIds == {0, 5, 6}

InstallmentTransactions ==
    { Txn(0, se.description, k, se.total, c, 1) :
        se \in InstallmentSeries, k \in InstallmentNumbers,
        c \in InstallmentCategoryIds }

\* The transaction whose category is looked up: "n" in 3 installments.
InstallmentTargets ==
    { Txn(0, <<"n", " ", "2", "/", "3">>, k, 3, 0, 1) : k \in InstallmentNumbers }

InstallmentBatches == UNION { [1..n -> InstallmentTransactions] : n \in 0..MaxBatch }

\* The cached invoices of the cross-invoice lookup: one per transaction, in
\* the order of the list.
OneInvoiceEach(txns) ==
    [i \in 1..Len(txns) |->
        [id |-> i, date |-> 0, credit_card_id |-> 1, transactions |-> <<txns[i]>>]]

InitInstallment ==
    /\ BatchIdle
    /\ fn \in {"resolveInstallment", "findInstallmentCategory"}
    /\ args \in [transaction : InstallmentTargets, allTransactions : InstallmentBatches]
    /\ ret = Pending

CallResolveInstallment ==
    /\ fn = "resolveInstallment"
    /\ ~ret.done
    /\ ret' = Returned(resolveInstallment(args.transaction, args.allTransactions))
    /\ UNCHANGED <<batchVars, fn, args, client>>

CallFindInstallmentCategory ==
    /\ fn = "findInstallmentCategory"
    /\ ~ret.done
    /\ ret' = Returned(findInstallmentCategoryIn(args.transaction,
                            OneInvoiceEach(args.allTransactions)))
    /\ UNCHANGED <<batchVars, fn, args, client>>

NextInstallment == CallResolveInstallment \/ CallFindInstallmentCategory

SpecInstallment == InitInstallment /\ [][NextInstallment]_vars

\* ---- findInstallmentCategory over cached invoices ----

\* Longest list of cached transactions.
MaxScan == 3

\* Cached transactions: installment 1 of the purchase "n" in 3 installments
\* with no category (0) or a category, its installment 2 with a category,
\* installment 1 of the purchase "m" in 3, and installment 1 of a purchase
\* "n" in 2.
ScanTransactions ==
    { Txn(0, <<"n", "1", "/", "3", " ">>, 1, 3, c, 1) : c \in {0, 5, 6} }
        \cup { Txn(0, <<"n", "1", "/", "3", " ">>, 2, 3, c, 1) : c \in {5, 6} }
        \cup { Txn(0, <<"m", " ", "1", "/", "3">>, 1, 3, 6, 1),
               Txn(0, <<" ", "n", " ", "1", "/", "2">>, 1, 2, 5, 1) }

\* The transaction looked up: installment 2 or 3 of "n" in 3.
ScanTargets ==
    { Txn(0, <<"n", " ", "2", "/", "3">>, k, 3, 0, 1) : k \in {2, 3} }

ScanLists == UNION { [1..n -> ScanTransactions] : n \in 0..MaxScan }

\* Two cached invoices holding the list: the first `split` transactions in
\* the first invoice, the others in the second.
TwoInvoices(txns, split) ==
    << [id |-> 1, date |-> 2, credit_card_id |-> 1,
        transactions |-> SubSeq(txns, 1, split)],
       [id |-> 2, date |-> 1, credit_card_id |-> 1,
        transactions |-> SubSeq(txns, split + 1, Len(txns))] >>

InitScan ==
    /\ BatchIdle
    /\ fn = "findInstallmentCategory:cached"
    /\ \E t \in ScanTargets, txns \in ScanLists :
        \E split \in 0..Len(txns) :
            args = [transaction |-> t, invoices |-> TwoInvoices(txns, split)]
    /\ ret = Pending

\* findInstallmentCategory once getCachedInvoices has returned the invoices.
CallFindInCachedInvoices ==
    /\ fn = "findInstallmentCategory:cached"
    /\ ~ret.done
    /\ ret' = Returned(findInstallmentCategoryIn(args.transaction, args.invoices))
    /\ UNCHANGED <<batchVars, fn, args, client>>

NextScan == CallFindInCachedInvoices

SpecScan == InitScan /\ [][NextScan]_vars

-----------------------------------------------------------------------------
(* getCachedInvoices: which invoices of the list a cache miss selects      *)

\* The longest invoice list the API returns for a card.
MaxInvoices == 14

\* An invoice as api.getInvoices lists it.
ListedInvoice(id, date) ==
    [id |-> id, date |-> date, credit_card_id |-> 1, transactions |-> <<>>]

\* The lists: n invoices with ids 1..n in the order the API returns them,
\* dated oldest first, newest first, or oldest first with two invoices on
\* each date.
InvoiceLists ==
    UNION { { [i \in 1..n |-> ListedInvoice(i, i)],
              [i \in 1..n |-> ListedInvoice(i, n + 1 - i)],
              [i \in 1..n |-> ListedInvoice(i, (i + 1) \div 2)] } :
            n \in 0..MaxInvoices }

InitSelect ==
    /\ BatchIdle
    /\ fn = "getCachedInvoices:select"
    /\ \E list \in InvoiceLists :
        \E current \in 1..(Len(list) + 1) :
            args = [invoiceList |-> list, currentInvoiceId |-> current]
    /\ ret = Pending

\* The selection step of a cache miss, from the sort to relevantInvoices.
CallSelectInvoices ==
    /\ fn = "getCachedInvoices:select"
    /\ ~ret.done
    /\ ret' = Returned(RelevantInvoices(args.invoiceList, args.currentInvoiceId))
    /\ UNCHANGED <<batchVars, fn, args, client>>

NextSelect == CallSelectInvoices

SpecSelect == InitSelect /\ [][NextSelect]_vars

-----------------------------------------------------------------------------
(* The options of the update command (utils/options.ts)                    *)

\* /^\d{4}-\d{2}$/
IsMonth(s) ==
    /\ Len(s) = 7
    /\ \A i \in {1, 2, 3, 4, 6, 7} : s[i] \in DecimalDigits
    /\ s[5] = "-"

\* z.string().regex(...).optional(): undefined, or a string of the format.
IsOptionalMonth(s) == s = NullStr \/ IsMonth(s)

\* A schema without the refinement on account.
UpdateOptionsSchemaAnyAccount(data) ==
    /\ IsOptionalMonth(data.start)
    /\ IsOptionalMonth(data.end)
    /\ TruthyStr(data.invoice) \/ (TruthyStr(data.start) /\ TruthyStr(data.end))
    /\ ~(TruthyStr(data.invoice) /\ (TruthyStr(data.start) \/ TruthyStr(data.end)))
    /\ ~TruthyStr(data.start) \/ TruthyStr(data.end)

\* UpdateOptionsSchema.safeParse(data).success: the object schema, then the
\* four refinements, each on the truthiness of the fields.
UpdateOptionsSchema(data) ==
    /\ IsOptionalMonth(data.start)
    /\ IsOptionalMonth(data.end)
    /\ TruthyStr(data.invoice) \/ (TruthyStr(data.start) /\ TruthyStr(data.end))
    /\ ~(TruthyStr(data.invoice) /\ (TruthyStr(data.start) \/ TruthyStr(data.end)))
    /\ ~TruthyStr(data.start) \/ TruthyStr(data.end)
    /\ ~TruthyStr(data.account) \/ (TruthyStr(data.start) /\ TruthyStr(data.end))

\* Values of --invoice and --account: not given (undefined), the empty
\* string, a value.
InvoiceOptions == { NullStr, <<>>, <<"1", "/", "3">> }

AccountOptions == { NullStr, <<>>, <<"7">> }

\* Values of --start and --end: not given, the empty string, a month, and a
\* string that is not YYYY-MM.
MonthOptions ==
    { NullStr, <<>>,
      <<"2", "0", "2", "5", "-", "0", "1">>,
      <<"2", "0", "2", "5", "-", "1">> }

InitOptions ==
    /\ BatchIdle
    /\ fn = "UpdateOptionsSchema.safeParse"
    /\ args \in [invoice : InvoiceOptions, start : MonthOptions,
                 end : MonthOptions, account : AccountOptions]
    /\ ret = Pending

CallSafeParse ==
    /\ fn = "UpdateOptionsSchema.safeParse"
    /\ ~ret.done
    /\ ret' = Returned(UpdateOptionsSchema(args))
    /\ UNCHANGED <<batchVars, fn, args, client>>

NextOptions == CallSafeParse

SpecOptions == InitOptions /\ [][NextOptions]_vars

-----------------------------------------------------------------------------
(* The API client under concurrent callers                                 *)

\* Most 429 responses the server gives in the model.
MaxRetries == 2

\* The 429 responses given so far.
RECURSIVE Responses429(_, _)
Responses429(c, ps) ==
    IF ps = {} THEN 0
    ELSE LET p == CHOOSE q \in ps : TRUE
         IN Len(c.callers[p].waits) + Responses429(c, ps \ {p})

\* Longest time the model follows the client, in ms.
MaxElapsed == 12000

\* Time from a request to its response, in ms: half of minDelay.
Latency == minDelay \div 2

\* The Retry-After header of a 429 response: absent, or "1".
RetryAfterHeaders == {"<null>", "1"}

\* parseInt(res.headers.get('Retry-After') || '5')
RetryAfter(header) ==
    IF header = "<null>" THEN DefaultRetryAfter ELSE DigitValue(header)

\* rateLimit() up to its first suspension, called by p at the current time:
\* either the caller goes to sleep for the rest of minDelay, or lastRequest
\* is set and rateLimit returns.
RateLimit(c, p) ==
    LET now     == c.clock
        elapsed == now - c.lastRequest
    IN IF elapsed < minDelay
       THEN [c EXCEPT !.callers[p].state = "sleeping",
                      !.callers[p].at = now + (minDelay - elapsed)]
       ELSE [c EXCEPT !.lastRequest = now, !.callers[p].state = "ready"]

\* What p waits for, a timer or a response, is due.
Due(c, p) ==
    c.callers[p].state \in {"sleeping", "backoff", "waiting"}
        /\ c.callers[p].at <= c.clock

InitClient == BatchIdle /\ HarnessIdle

\* An api method is called: this.fetch awaits this.rateLimit().
ClientCall(p) ==
    /\ client.callers[p].state = "idle"
    /\ client' = RateLimit(client, p)
    /\ UNCHANGED <<batchVars, harnessVars>>

\* Bun.sleep(minDelay - elapsed) is over: this.lastRequest = Date.now().
ClientWake(p) ==
    /\ client.callers[p].state = "sleeping"
    /\ Due(client, p)
    /\ client' = [client EXCEPT !.lastRequest = client.clock,
                                !.callers[p].state = "ready"]
    /\ UNCHANGED <<batchVars, harnessVars>>

\* rateLimit() has returned: the request is sent.
ClientSend(p) ==
    /\ client.callers[p].state = "ready"
    /\ client' = [client EXCEPT
                    !.sent = Append(@, [caller |-> p, at |-> client.clock]),
                    !.callers[p].state = "waiting",
                    !.callers[p].at = client.clock + Latency]
    /\ UNCHANGED <<batchVars, harnessVars>>

\* The response is ok: the data is parsed and returned.
ClientOk(p) ==
    /\ client.callers[p].state = "waiting"
    /\ Due(client, p)
    /\ client' = [client EXCEPT !.callers[p].state = "done"]
    /\ UNCHANGED <<batchVars, harnessVars>>

\* The response is neither 429 nor ok: fetch throws.
ClientError(p) ==
    /\ client.callers[p].state = "waiting"
    /\ Due(client, p)
    /\ client' = [client EXCEPT !.callers[p].state = "failed"]
    /\ UNCHANGED <<batchVars, harnessVars>>

\* The response is 429: Bun.sleep(retryAfter * 1000).
Client429(p) ==
    /\ client.callers[p].state = "waiting"
    /\ Due(client, p)
    /\ Responses429(client, Callers) < MaxRetries
    /\ \E header \in RetryAfterHeaders :
        LET wait == RetryAfter(header) * 1000
        IN client' = [client EXCEPT
                        !.callers[p].state = "backoff",
                        !.callers[p].at = client.clock + wait,
                        !.callers[p].waits = Append(@, wait)]
    /\ UNCHANGED <<batchVars, harnessVars>>

\* The sleep after a 429 is over: return this.fetch(path, schema, options).
ClientRetry(p) ==
    /\ client.callers[p].state = "backoff"
    /\ Due(client, p)
    /\ client' = RateLimit(client, p)
    /\ UNCHANGED <<batchVars, harnessVars>>

\* Time passes, up to the next timer or response, while no caller can run.
ClientTick ==
    /\ \A p \in Callers : client.callers[p].state /= "ready" /\ ~Due(client, p)
    /\ LET pending == { client.callers[p].at :
                         p \in { q \in Callers :
                                 client.callers[q].state
                                    \in {"sleeping", "backoff", "waiting"} } }
       IN \E t \in pending :
            /\ \A u \in pending : t <= u
            /\ t <= StartClock + MaxElapsed
            /\ client' = [client EXCEPT !.clock = t]
    /\ UNCHANGED <<batchVars, harnessVars>>

NextClient ==
    \/ \E p \in Callers :
        \/ ClientCall(p)
        \/ ClientWake(p)
        \/ ClientSend(p)
        \/ ClientOk(p)
        \/ ClientError(p)
        \/ Client429(p)
        \/ ClientRetry(p)
    \/ ClientTick

SpecClient == InitClient /\ [][NextClient]_vars

-----------------------------------------------------------------------------
(* Claims about processBatch                                               *)

\* C1: processBatch returns exactly one result per input transaction, and
\* the i-th result refers to the i-th input transaction.
C1_OneResultPerInput ==
    /\ Len(results) <= Len(transactions)
    /\ \A i \in 1..Len(results) : results[i].transaction = transactions[i]
    /\ (pc = "done" => Len(results) = Len(transactions))

\* A returned batch of two different transactions, the first skipped and
\* the second updated.
C1_Witness ==
    /\ pc = "done"
    /\ Len(transactions) >= 2
    /\ transactions[1] /= transactions[2]
    /\ results[1].action = "skip"
    /\ results[2].action = "update"

\* C2: a result whose action is skip carries no changes.
C2_SkipHasNoChanges ==
    \A i \in 1..Len(results) :
        results[i].action = "skip" =>
            /\ ~results[i].changes.defined
            /\ KeyCount(results[i].changes) = 0

\* A rename-only or tags-only batch that holds a skip of the final
\* classification (nothing staged) beside a result that has changes.
C2_Witness ==
    /\ pc = "done"
    /\ ~NormalMode(options)
    /\ \E i, j \in 1..Len(results) :
        /\ results[i].action = "skip"
        /\ results[i].reason = NullName
        /\ results[j].action /= "skip"
        /\ results[j].changes.defined

\* C3 as stated: every changes.category_id is an id of the CategoryTable.
C3_CategoryIdInTable ==
    \A i \in 1..Len(results) :
        results[i].changes.category_id /= NullId =>
            results[i].changes.category_id \in CategoryTableIds(config.categories)

\* The category ids of the transactions an installment lookup may read: the
\* batch, and the invoices in the cache.
C3_KnownCategoryIds ==
    {transactions[i].category_id : i \in 1..Len(transactions)}
        \cup {ScanOrder(invoiceCache.invoices)[i].category_id :
                i \in 1..Len(ScanOrder(invoiceCache.invoices))}

\* C3 as amended: a category id suggested by the pattern rules is an id of
\* the CategoryTable; an inherited one is the category id of a transaction
\* of the batch or of the cached invoices.
C3_PatternCategoryIdInTable ==
    \A i \in 1..Len(results) :
        results[i].changes.category_id /= NullId =>
            /\ results[i].reason \in {"pattern", "installment"}
            /\ (results[i].reason = "pattern" =>
                    results[i].changes.category_id
                        \in CategoryTableIds(config.categories))
            /\ (results[i].reason = "installment" =>
                    results[i].changes.category_id \in C3_KnownCategoryIds)

\* One batch with a category from a rule and an inherited category that
\* the CategoryTable does not hold.
C3_Witness ==
    /\ pc = "done"
    /\ \E i, j \in 1..Len(results) :
        /\ results[i].reason = "pattern"
        /\ results[i].changes.category_id \in CategoryTableIds(config.categories)
        /\ results[j].reason = "installment"
        /\ results[j].changes.category_id /= NullId
        /\ results[j].changes.category_id \notin CategoryTableIds(config.categories)

-----------------------------------------------------------------------------
(* Claims about the update command                                         *)

\* C6: without --apply the update command sends no updateTransaction
\* request, whatever processBatch proposed.
C6_DryRunWritesNothing ==
    ~options.apply => Len(UpdateCalls) = 0

\* A dry run that reached its summary with a proposed change in the results.
C6_Witness ==
    /\ pc = "summary"
    /\ ~options.apply
    /\ \E i \in 1..Len(results) : IsApplicable(results[i])


-----------------------------------------------------------------------------
(* Claims about the helper functions                                       *)

\* The transactions of a list whose installment index is below k.
C4_EarlierOnly(txns, k) == SelectSeq(txns, LAMBDA txn : txn.installment < k)

\* The lookup named by f, run on a transaction and a list.
C4_Lookup(f, transaction, txns) ==
    IF f = "resolveInstallment"
    THEN resolveInstallment(transaction, txns)
    ELSE findInstallmentCategoryIn(transaction, OneInvoiceEach(txns))

\* C4: for a target with installment index k, the category returned by
\* resolveInstallment and by findInstallmentCategory is the one returned when
\* every transaction with installment index >= k is taken away, it is the
\* category of a transaction with a smaller index, and for k <= 1 it is none.
C4_NeverLooksForward ==
    (ret.done /\ fn \in {"resolveInstallment", "findInstallmentCategory"}) =>
        LET k == args.transaction.installment
            txns == args.allTransactions
        IN /\ k <= 1 => ret.value = NullId
           /\ ret.value = C4_Lookup(fn, args.transaction, C4_EarlierOnly(txns, k))
           /\ ret.value /= NullId =>
                \E i \in 1..Len(txns) : /\ txns[i].installment < k
                                        /\ txns[i].category_id = ret.value

\* The cross-invoice lookup for installment 2 of 3 answered 5 although a
\* categorised transaction of the same purchase with index >= 2 and another
\* category was among the invoices.
C4_Witness ==
    /\ ret.done
    /\ fn = "findInstallmentCategory"
    /\ args.transaction.installment = 2
    /\ ret.value = 5
    /\ \E i \in 1..Len(args.allTransactions) :
        LET txn == args.allTransactions[i]
        IN /\ txn.installment >= 2
           /\ txn.total_installments = 3
           /\ txn.category_id = 6
           /\ BaseDescription(txn.description)
                = BaseDescription(args.transaction.description)

\* updated_at is an instant strictly after created_at.
C5_StrictlyLater(updatedAt, createdAt) ==
    /\ updatedAt.valid
    /\ createdAt.valid
    /\ updatedAt.wall - updatedAt.offset > createdAt.wall - createdAt.offset

\* C5: shouldSkip answers by the first applicable of four rules: no
\* suggestion -> no_match; category equal to the suggestion ->
\* already_correct; not forced and updated after created -> manual_edit;
\* otherwise no skip.  With force it never answers manual_edit.
C5_SkipRuleOrder ==
    (ret.done /\ fn = "shouldSkip") =>
        LET t == args.transaction
            s == args.suggestedCategoryId
            edited == C5_StrictlyLater(t.updated_at, t.created_at)
        IN /\ s = NullId => ret.value = [skip |-> TRUE, reason |-> "no_match"]
           /\ (s /= NullId /\ t.category_id = s) =>
                ret.value = [skip |-> TRUE, reason |-> "already_correct"]
           /\ (s /= NullId /\ t.category_id /= s /\ ~args.force /\ edited) =>
                ret.value = [skip |-> TRUE, reason |-> "manual_edit"]
           /\ (s /= NullId /\ t.category_id /= s /\ (args.force \/ ~edited)) =>
                ret.value = [skip |-> FALSE, reason |-> NullName]
           /\ args.force => ret.value.reason /= "manual_edit"

\* An unforced call on a manually edited transaction whose category already
\* is the suggestion: the answer is already_correct.
C5_Witness ==
    /\ ret.done
    /\ fn = "shouldSkip"
    /\ ~args.force
    /\ C5_StrictlyLater(args.transaction.updated_at, args.transaction.created_at)
    /\ args.transaction.category_id = args.suggestedCategoryId
    /\ ret.value.reason = "already_correct"

\* Two characters that are the same letter, whatever their case.
SameLetter(a, b) ==
    a = b \/ {a, b} \in { {"u", "U"}, {"e", "E"}, {"n", "N"} }

\* text occurs somewhere in description, case ignored.
C7_Contains(description, text) ==
    \E o \in 0..(Len(description) - Len(text)) :
        \A k \in 1..Len(text) : SameLetter(description[o + k], text[k])

\* The rule's pattern is well formed and occurs in the description.
C7_Matches(rule, description) ==
    /\ \A k \in 1..Len(rule.pattern) : rule.pattern[k] /= "("
    /\ C7_Contains(description, rule.pattern)

\* C7: matchCategory returns the category of the lowest-indexed rule whose
\* pattern occurs in the description, case ignored, and none when no rule
\* matches.
C7_FirstMatchWins ==
    (ret.done /\ fn = "matchCategory") =>
        LET matching == { i \in 1..Len(args.rules) :
                            C7_Matches(args.rules[i], args.description) }
        IN ret.value =
            IF matching = {} THEN NullName
            ELSE args.rules[CHOOSE i \in matching : \A j \in matching : i <= j].category

\* Two rules with different categories both match in the middle of the
\* description, and the first one's category is returned.
C7_Witness ==
    /\ ret.done
    /\ fn = "matchCategory"
    /\ Len(args.rules) = 2
    /\ Len(args.description) > Len(args.rules[1].pattern)
    /\ C7_Matches(args.rules[1], args.description)
    /\ C7_Matches(args.rules[2], args.description)
    /\ args.rules[1].category /= args.rules[2].category
    /\ ret.value = args.rules[1].category

\* The glob pattern covers all of s: '*' any run of characters, '?' exactly
\* one character, any other character itself, case ignored.
RECURSIVE GlobMatches(_, _)
GlobMatches(pattern, s) ==
    IF pattern = <<>> THEN s = <<>>
    ELSE IF Head(pattern) = "*"
    THEN \E k \in 0..Len(s) : GlobMatches(Tail(pattern), SubSeq(s, k + 1, Len(s)))
    ELSE /\ s /= <<>>
         /\ Head(pattern) = "?" \/ SameLetter(Head(pattern), Head(s))
         /\ GlobMatches(Tail(pattern), Tail(s))

\* The positions of the entries whose pattern covers the description.
MatchingEntries(entries, description) ==
    { i \in 1..Len(entries) : GlobMatches(entries[i].key, description) }

First(indices) == CHOOSE i \in indices : \A j \in indices : i <= j

\* C8 as stated: when the replacement of the matched pattern is the
\* description itself, matchRename returns none.
C8_NoOpIsNone ==
    (ret.done /\ fn = "matchRename") =>
        LET entries == ObjectEntries(args.renameMap)
            matching == MatchingEntries(entries, args.description)
        IN (matching /= {} /\ entries[First(matching)].value = args.description)
                => ret.value = NullStr

\* C8: matchRename returns none exactly when no pattern covers the
\* description; a replacement equal to the description is returned like any
\* other, and the rename step of processBatch is what drops it.
C8_NoneOnlyWhenNoMatch ==
    (ret.done /\ fn = "matchRename") =>
        /\ ret.value = NullStr <=>
                MatchingEntries(args.renameMap, args.description) = {}
        /\ StageDescription([description |-> args.description],
                            [tagsOnly |-> FALSE],
                            [rename |-> args.renameMap]) /= args.description

\* matchRename returned the very description it was given.
C8_Witness ==
    /\ ret.done
    /\ fn = "matchRename"
    /\ ret.value = args.description

\* C9: matchRename returns the replacement of the first entry, in the order
\* the map declares them, whose pattern covers the entire description, and
\* none when there is no such entry.
C9_DeclarationOrder ==
    (ret.done /\ fn = "matchRename") =>
        LET matching == MatchingEntries(args.renameMap, args.description)
        IN ret.value =
            IF matching = {} THEN NullStr
            ELSE args.renameMap[First(matching)].value

\* The same purchase: equal totals and equal base descriptions.
C10_SamePurchase(transaction, txn) ==
    /\ txn.total_installments = transaction.total_installments
    /\ BaseDescription(txn.description) = BaseDescription(transaction.description)

\* C10: for a target with installment index k > 1, resolveInstallment returns
\* the category id of a batch transaction of the same purchase with index
\* k - 1, and none when the batch holds no such transaction.
C10_PreviousInstallment ==
    (ret.done /\ fn = "resolveInstallment" /\ args.transaction.installment > 1) =>
        LET txns == args.allTransactions
            previous == { i \in 1..Len(txns) :
                            /\ txns[i].installment = args.transaction.installment - 1
                            /\ C10_SamePurchase(args.transaction, txns[i]) }
        IN /\ previous = {} => ret.value = NullId
           /\ previous /= {} => \E i \in previous : ret.value = txns[i].category_id

\* Installment 3 inherits category 6 from installment 2 of its purchase,
\* whose description is spelled differently, while the batch also holds an
\* installment 2 of another purchase.
C10_Witness ==
    /\ ret.done
    /\ fn = "resolveInstallment"
    /\ args.transaction.installment = 3
    /\ ret.value = 6
    /\ \E i, j \in 1..Len(args.allTransactions) :
        LET a == args.allTransactions[i]
            b == args.allTransactions[j]
        IN /\ a.installment = 2
           /\ C10_SamePurchase(args.transaction, a)
           /\ a.description /= args.transaction.description
           /\ a.category_id = 6
           /\ b.installment = 2
           /\ ~C10_SamePurchase(args.transaction, b)
           /\ b.category_id = 5

-----------------------------------------------------------------------------
(* Claims about the cross-invoice lookup                                   *)

\* The cached transactions in scan order: invoice by invoice, each invoice's
\* transactions in their order.
RECURSIVE C11_Scanned(_)
C11_Scanned(invoices) ==
    IF invoices = <<>> THEN <<>>
    ELSE Head(invoices).transactions \o C11_Scanned(Tail(invoices))

\* An earlier installment of the target's purchase.
C11_IsEarlier(transaction, txn) ==
    /\ txn.total_installments = transaction.total_installments
    /\ BaseDescription(txn.description) = BaseDescription(transaction.description)
    /\ txn.installment < transaction.installment

\* The category ids of the earlier installments of the purchase, in scan
\* order.
C11_Ids(transaction, invoices) ==
    LET earlier == SelectSeq(C11_Scanned(invoices),
                             LAMBDA txn : C11_IsEarlier(transaction, txn))
    IN [i \in 1..Len(earlier) |-> earlier[i].category_id]

\* The same, of the installments that carry a category.
C11_CategorisedIds(transaction, invoices) ==
    SelectSeq(C11_Ids(transaction, invoices), LAMBDA c : c /= 0)

C11_Count(ids, c) == Cardinality({ i \in 1..Len(ids) : ids[i] = c })

C11_FirstSeen(ids, c) ==
    CHOOSE i \in 1..Len(ids) : ids[i] = c /\ \A j \in 1..(i - 1) : ids[j] /= c

\* c is the most frequent of ids and, among the most frequent, seen first.
C11_IsMode(ids, c) ==
    /\ \E i \in 1..Len(ids) : ids[i] = c
    /\ \A i \in 1..Len(ids) :
        \/ C11_Count(ids, ids[i]) < C11_Count(ids, c)
        \/ /\ C11_Count(ids, ids[i]) = C11_Count(ids, c)
           /\ C11_FirstSeen(ids, c) <= C11_FirstSeen(ids, ids[i])

\* C11 as stated: the ids of all earlier installments of the purchase are
\* collected, the first-seen mode of them is returned, and none is returned
\* only when there is no earlier installment.
C11_ModeOfAllPrior ==
    (ret.done /\ fn = "findInstallmentCategory:cached") =>
        LET ids == C11_Ids(args.transaction, args.invoices)
        IN IF ids = <<>> THEN ret.value = NullId
           ELSE C11_IsMode(ids, ret.value)

\* C11: the ids of the earlier installments of the purchase that carry a
\* category (category_id not 0) are collected; the first-seen mode of them
\* is returned, and none when there is none.
C11_ModeOfCategorisedPrior ==
    (ret.done /\ fn = "findInstallmentCategory:cached") =>
        LET ids == C11_CategorisedIds(args.transaction, args.invoices)
        IN IF ids = <<>> THEN ret.value = NullId
           ELSE C11_IsMode(ids, ret.value)

\* Installment 3 of 3 with three categorised earlier installments in two
\* invoices: 5 seen first, then 6 twice; the answer is 6.
C11_Witness ==
    /\ ret.done
    /\ fn = "findInstallmentCategory:cached"
    /\ args.transaction.installment = 3
    /\ C11_Ids(args.transaction, args.invoices) = <<5, 6, 6>>
    /\ Len(args.invoices[1].transactions) = 1
    /\ ret.value = 6

\* Two earlier installments with different categories, one each: the one
\* seen first is returned.
C11_TieWitness ==
    /\ ret.done
    /\ fn = "findInstallmentCategory:cached"
    /\ C11_Ids(args.transaction, args.invoices) = <<6, 5>>
    /\ ret.value = 6

-----------------------------------------------------------------------------
(* Claims about the steps of processBatch                                  *)

\* What the cross-invoice lookup returns for txn from invoices fetched in
\* this invocation.
C12_FreshLookup(txn) ==
    IF NormalMode(options) /\ NeedsInvoices(txn)
    THEN findInstallmentCategoryIn(txn,
            FullInvoices(options.cardId, options.invoiceId))
    ELSE NullId

\* C12: in a processBatch call with card and invoice context the cache holds,
\* once the call is under way, nothing but invoices fetched by this call,
\* and every result is the one computed from those invoices.
C12_CacheScopedToBatch ==
    (HasContext(options) /\ pc /= "start") =>
        /\ \/ invoiceCache.null
           \/ invoiceCache.cards = {}
           \/ invoiceCache.invoices
                = FullInvoices(options.cardId, options.invoiceId)
        /\ \A i \in 1..Len(results) :
            results[i] = ProcessTransaction(transactions[i],
                            C12_FreshLookup(transactions[i]), options, config,
                            buildCategoryMap(Categories))

\* A call with context finished with a category inherited from the invoices
\* the server holds (9), not from the ones an earlier call had cached (7).
C12_Witness ==
    /\ pc = "done"
    /\ HasContext(options)
    /\ ~invoiceCache.null
    /\ \E i \in 1..Len(results) :
        /\ results[i].reason = "installment"
        /\ results[i].changes.category_id = 9

\* What the installment lookup of the batch gives for txn: the cross-invoice
\* lookup with card and invoice context, the same-batch lookup without.
C13_Inherited(txn) ==
    IF ~NormalMode(options) THEN NullId
    ELSE IF HasContext(options) THEN C12_FreshLookup(txn)
    ELSE resolveInstallment(txn, transactions)

\* The lookup gave a category: an id that is neither none nor 0.
C13_YieldsCategory(id) == id /= NullId /\ id /= 0

\* The category suggested for txn in normal mode.
C13_Suggested(txn) == SuggestCategory(txn, C13_Inherited(txn), config).id

\* C13: in normal mode a transaction the skip policy skips gets a skip result
\* with the policy's reason and no changes: neither description nor tags.
C13_PolicySkipStagesNothing ==
    \A i \in 1..Len(results) :
        LET txn == transactions[i]
            policy == shouldSkip(txn, C13_Suggested(txn), options.force)
        IN (NormalMode(options) /\ policy.skip) =>
            /\ results[i].action = "skip"
            /\ results[i].reason = policy.reason
            /\ ~results[i].changes.defined
            /\ results[i].changes.description = NullStr
            /\ results[i].changes.tags = NullTags

\* A transaction already in the suggested category, whose description a
\* rename pattern would change and whose category has tags, was skipped as
\* already_correct.
C13_Witness ==
    /\ pc = "done"
    /\ NormalMode(options)
    /\ \E i \in 1..Len(results) :
        /\ results[i].action = "skip"
        /\ results[i].reason = "already_correct"
        /\ StageDescription(transactions[i], options, config) /= NullStr
        /\ getTagsForCategory(transactions[i].category_id, config.tags,
                              buildCategoryMap(Categories)) /= <<>>

\* C14: in normal mode a category given by installment inheritance is the
\* suggestion, with source installment, whatever the rules say; the rules
\* give the suggestion, with source pattern, only when inheritance gives
\* no category.
C14_InheritanceBeforePattern ==
    \A i \in 1..Len(results) :
        NormalMode(options) =>
            LET txn == transactions[i]
                inherited == C13_Inherited(txn)
                categoryName == matchCategory(txn.description, config.rules)
                id == IF C13_YieldsCategory(inherited) THEN inherited
                      ELSE IF categoryName = NullName THEN NullId
                      ELSE getCategoryId(categoryName, config.categories)
                source == IF C13_YieldsCategory(inherited) THEN "installment"
                          ELSE IF categoryName = NullName THEN NullName
                          ELSE "pattern"
                policy == shouldSkip(txn, id, options.force)
            IN IF policy.skip
               THEN results[i].action = "skip" /\ results[i].reason = policy.reason
               ELSE /\ results[i].changes.category_id = id
                    /\ results[i].reason = source

\* An installment whose earlier installment has category 9 and whose
\* description matches a rule of category 5: the result proposes 9, source
\* installment.
C14_Witness ==
    /\ pc = "done"
    /\ NormalMode(options)
    /\ \E i \in 1..Len(results) :
        /\ C13_Inherited(transactions[i]) = 9
        /\ getCategoryId(matchCategory(transactions[i].description, config.rules),
                         config.categories) = 5
        /\ results[i].changes.category_id = 9
        /\ results[i].reason = "installment"

\* A transaction without an earlier installment proposed for the category of
\* the rule it matches, source pattern.
C14_PatternWitness ==
    /\ pc = "done"
    /\ NormalMode(options)
    /\ \E i \in 1..Len(results) :
        /\ ~C13_YieldsCategory(C13_Inherited(transactions[i]))
        /\ results[i].changes.category_id = 5
        /\ results[i].reason = "pattern"

\* The CategoryTable holds the name.
C15_InTable(name) ==
    \/ \E i \in 1..Len(config.categories.essencial) :
        config.categories.essencial[i].key = name
    \/ \E i \in 1..Len(config.categories.estilo_de_vida) :
        config.categories.estilo_de_vida[i].key = name

\* C15: when inheritance gives no category and the first matching rule names
\* a category the CategoryTable lacks, the result is a skip with reason
\* no_match and no changes, the same result an empty rule list gives, and
\* the batch goes on to its end.
C15_UnknownCategoryIsNoMatch ==
    /\ \A i \in 1..Len(results) :
        LET txn == transactions[i]
            categoryName == matchCategory(txn.description, config.rules)
        IN (/\ NormalMode(options)
            /\ ~C13_YieldsCategory(C13_Inherited(txn))
            /\ categoryName /= NullName
            /\ ~C15_InTable(categoryName)) =>
                /\ results[i] = [transaction |-> txn, action |-> "skip",
                                 changes |-> NoChanges, reason |-> "no_match"]
                /\ results[i] = ProcessTransaction(txn, C13_Inherited(txn), options,
                                    [config EXCEPT !.rules = <<>>],
                                    buildCategoryMap(Categories))
    /\ pc = "done" => Len(results) = Len(transactions)

\* The first transaction matched only the rule of the missing category
\* "ghost" and was skipped as no_match; the second one got a category.
C15_Witness ==
    /\ pc = "done"
    /\ NormalMode(options)
    /\ Len(results) = 2
    /\ matchCategory(transactions[1].description, config.rules) = "ghost"
    /\ results[1].reason = "no_match"
    /\ results[2].action = "update"

\* C16: a transaction the skip policy did not skip is classified by its
\* staged changes: none -> skip; a description and no category -> rename;
\* anything else -> update.
C16_ActionFromStagedChanges ==
    \A i \in 1..Len(results) :
        LET txn == transactions[i]
            policySkipped ==
                /\ NormalMode(options)
                /\ shouldSkip(txn, C13_Suggested(txn), options.force).skip
            changes == results[i].changes
            nothing == /\ changes.category_id = NullId
                       /\ changes.description = NullStr
                       /\ changes.tags = NullTags
        IN ~policySkipped =>
            /\ changes.defined = ~nothing
            /\ results[i].action =
                IF nothing THEN "skip"
                ELSE IF changes.description /= NullStr /\ changes.category_id = NullId
                THEN "rename"
                ELSE "update"

\* A finished batch with one result of each kind reachable in it: a rename
\* (description alone) and a skip for want of changes.
C16_Witness ==
    /\ pc = "done"
    /\ \E i, j \in 1..Len(results) :
        /\ results[i].action = "rename"
        /\ results[i].changes.description /= NullStr
        /\ results[j].action = "skip"
        /\ results[j].reason = NullName

\* An update that stages a description together with a category.
C16_UpdateWitness ==
    /\ pc = "done"
    /\ \E i \in 1..Len(results) :
        /\ results[i].action = "update"
        /\ results[i].changes.description /= NullStr
        /\ results[i].changes.category_id /= NullId

\* The tags of a category id: those tags.yaml lists under the name the
\* CategoryTable gives the id; none for no id, for 0 and for an unknown id.
C17_TagsOf(id) ==
    LET table == config.categories.essencial \o config.categories.estilo_de_vida
        names == { table[i].key : i \in { j \in 1..Len(table) : table[j].value = id } }
    IN IF id = NullId \/ id = 0 \/ names = {} THEN <<>>
       ELSE LET name == CHOOSE n \in names : TRUE
            IN IF name \in DOMAIN config.tags THEN config.tags[name] ELSE <<>>

\* C17: with tagsOnly the tags come from the transaction's current category;
\* otherwise from the staged category, and only when one is staged; tags
\* are staged only when the list is not empty.
C17_TagDerivation ==
    \A i \in 1..Len(results) :
        LET txn == transactions[i]
            changes == results[i].changes
            derived == IF options.tagsOnly THEN C17_TagsOf(txn.category_id)
                       ELSE IF changes.category_id /= NullId
                       THEN C17_TagsOf(changes.category_id)
                       ELSE <<>>
        IN changes.tags = IF derived = <<>> THEN NullTags ELSE derived

\* A tagsOnly batch staged the tags of the current category of one
\* transaction and none for a transaction whose category the table lacks.
C17_Witness ==
    /\ pc = "done"
    /\ options.tagsOnly
    /\ \E i, j \in 1..Len(results) :
        /\ transactions[i].category_id = 5
        /\ results[i].changes.tags = <<"essential">>
        /\ results[i].changes.category_id = NullId
        /\ transactions[j].category_id = 9
        /\ results[j].changes.tags = NullTags

\* A normal batch staged category 5 with its tags for one transaction and
\* the inherited category 9, unknown to the table, without tags for another.
C17_NormalWitness ==
    /\ pc = "done"
    /\ NormalMode(options)
    /\ \E i, j \in 1..Len(results) :
        /\ results[i].changes.category_id = 5
        /\ results[i].changes.tags = <<"essential">>
        /\ results[j].changes.category_id = 9
        /\ results[j].changes.tags = NullTags

-----------------------------------------------------------------------------
(* Claims about the API client                                             *)

\* C18: any two requests the client sends are at least minDelay (200 ms)
\* apart, also when their callers run concurrently.
C18_MinDelayBetweenRequests ==
    \A i, j \in 1..Len(client.sent) :
        i < j => client.sent[j].at - client.sent[i].at >= minDelay

\* C19: the waits of one request after its successive 429 responses grow:
\* each is longer than the one before.
C19_BackoffGrows ==
    \A p \in Callers :
        \A i \in 2..Len(client.callers[p].waits) :
            client.callers[p].waits[i] > client.callers[p].waits[i - 1]

-----------------------------------------------------------------------------
(* Claims about the options of the update command                          *)

\* The option was given on the command line.
C20_Given(value) == value /= NullStr

\* The option was given a value that is not empty.
C20_GivenValue(value) == value /= NullStr /\ value /= <<>>

\* C20 as stated: an option set is accepted if and only if exactly one
\* source is given, invoice alone or both start and end, and account is
\* given only together with start and end.
C20_AcceptsExactlyOneSource ==
    (ret.done /\ fn = "UpdateOptionsSchema.safeParse") =>
        LET invoice == C20_Given(args.invoice)
            start   == C20_Given(args.start)
            end     == C20_Given(args.end)
            account == C20_Given(args.account)
        IN ret.value <=>
            /\ \/ invoice /\ ~start /\ ~end
               \/ ~invoice /\ start /\ end
            /\ account => (start /\ end)

\* C20: an option set is accepted if and only if start and end, when given,
\* are written YYYY-MM and, an empty invoice or account string counting as
\* not given, exactly one source is given, invoice alone or both start and
\* end, and account is given only together with start and end.
C20_AcceptsOneWellFormedSource ==
    (ret.done /\ fn = "UpdateOptionsSchema.safeParse") =>
        LET invoice == C20_GivenValue(args.invoice)
            start   == C20_Given(args.start)
            end     == C20_Given(args.end)
            account == C20_GivenValue(args.account)
            month(s) == /\ Len(s) = 7
                        /\ s[5] = "-"
                        /\ \A i \in {1, 2, 3, 4, 6, 7} :
                            s[i] \in {"0", "1", "2", "3", "4", "5", "6", "7", "8", "9"}
        IN ret.value <=>
            /\ start => month(args.start)
            /\ end => month(args.end)
            /\ \/ invoice /\ ~start /\ ~end
               \/ ~invoice /\ start /\ end
            /\ account => (start /\ end)

\* A date range with an account was accepted.
C20_Witness ==
    /\ ret.done
    /\ fn = "UpdateOptionsSchema.safeParse"
    /\ ret.value
    /\ C20_GivenValue(args.account)
    /\ C20_GivenValue(args.start)
    /\ C20_GivenValue(args.end)
    /\ ~C20_Given(args.invoice)

-----------------------------------------------------------------------------
(* Claims about renames, modes and actions in processBatch                 *)

\* C21: the rename patterns are matched against the description the
\* transaction came with, and a description is staged only when the
\* replacement differs from it: no result carries a changes.description
\* equal to the description of its transaction.
C21_NoOpRenameNotStaged ==
    \A i \in 1..Len(results) :
        LET txn == transactions[i]
            staged == results[i].changes.description
        IN staged /= NullStr =>
            /\ staged /= txn.description
            /\ staged = matchRename(txn.description, config.rename)

\* A batch in which the rename "u*" -> "U" matched a transaction already
\* described "U", for which nothing was staged, and a transaction whose
\* description it changed.
C21_Witness ==
    /\ pc = "done"
    /\ ~options.tagsOnly
    /\ \E i, j \in 1..Len(results) :
        /\ transactions[i].description = <<"U">>
        /\ matchRename(transactions[i].description, config.rename) = <<"U">>
        /\ results[i].changes.description = NullStr
        /\ results[j].changes.description = <<"U">>
        /\ transactions[j].description /= <<"U">>

\* C22: with tagsOnly no category and no description is changed: a result
\* is an update whose only change is the tags of the transaction's current
\* category, or, when that category has no tags, a skip without changes.
C22_TagsOnlyTouchesOnlyTags ==
    options.tagsOnly =>
        \A i \in 1..Len(results) :
            LET txn  == transactions[i]
                tags == C17_TagsOf(txn.category_id)
            IN /\ results[i].transaction = txn
               /\ IF tags /= <<>>
                  THEN /\ results[i].action = "update"
                       /\ results[i].changes =
                            [defined |-> TRUE, category_id |-> NullId,
                             description |-> NullStr, tags |-> tags]
                  ELSE /\ results[i].action = "skip"
                       /\ results[i].changes = NoChanges

\* A tagsOnly batch: a transaction that a rule and a rename match, in
\* category 5, got the tags of category 5 and nothing else; one without a
\* category was skipped.
C22_Witness ==
    /\ pc = "done"
    /\ options.tagsOnly
    /\ \E i, j \in 1..Len(results) :
        /\ transactions[i].category_id = 5
        /\ TruthyName(matchCategory(transactions[i].description, config.rules))
        /\ TruthyStr(matchRename(transactions[i].description, config.rename))
        /\ results[i].action = "update"
        /\ results[i].changes.tags = <<"essential">>
        /\ transactions[j].category_id = 0
        /\ results[j].action = "skip"

\* C23: processBatch emits the actions update, rename and skip, and never
\* the action conflict that ProcessResult declares.
C23_NeverConflict ==
    \A i \in 1..Len(results) :
        /\ results[i].action \in {"update", "rename", "skip"}
        /\ results[i].action /= "conflict"

\* A batch that met a manual edit that disagrees with the suggestion, and
\* skipped it, next to a transaction it updates.
C23_Witness ==
    /\ pc = "done"
    /\ \E i, j \in 1..Len(results) :
        /\ results[i].action = "skip"
        /\ results[i].reason = "manual_edit"
        /\ results[j].action = "update"

-----------------------------------------------------------------------------
(* Claims about the invoice cache                                          *)

\* The invoices of the list that were not selected.
C24_LeftOut ==
    { i \in 1..Len(args.invoiceList) :
        \A k \in 1..Len(ret.value) : ret.value[k].id /= args.invoiceList[i].id }

\* Whether the current invoice is in the list the API returned.
C24_CurrentListed ==
    \E i \in 1..Len(args.invoiceList) :
        args.invoiceList[i].id = args.currentInvoiceId

\* The selection is a run of at most 12 invoices of the list, newest first,
\* that leaves out an invoice older than its last one only when it is full.
C24_IsWindow ==
    LET sel == ret.value
    IN /\ Len(sel) <= 12
       /\ \A k \in 1..Len(sel) :
            \E i \in 1..Len(args.invoiceList) : args.invoiceList[i] = sel[k]
       /\ \A k, l \in 1..Len(sel) :
            k < l => sel[k].date >= sel[l].date /\ sel[k].id /= sel[l].id
       /\ \A i \in C24_LeftOut :
            \/ Len(sel) = 12 /\ args.invoiceList[i].date <= sel[Len(sel)].date
            \/ Len(sel) > 0 /\ args.invoiceList[i].date >= sel[1].date

\* The selection starts at the current invoice and holds no invoice dated
\* later than it.
C24_StartsAtCurrent ==
    /\ Len(ret.value) >= 1
    /\ ret.value[1].id = args.currentInvoiceId
    /\ \A k \in 1..Len(ret.value) : ret.value[k].date <= ret.value[1].date

\* C24 as stated: the selection is the run of at most 12 invoices that
\* starts at the current invoice in the list sorted by date descending, and
\* no selected invoice is dated later than the current one.
C24_WindowStartsAtCurrent ==
    (fn = "getCachedInvoices:select" /\ ret.done) =>
        C24_IsWindow /\ C24_StartsAtCurrent

\* C24, amended: that holds when the list contains the current invoice;
\* when it does not, the selection is the 12 newest invoices of the list.
C24_WindowStartsAtCurrentWhenListed ==
    (fn = "getCachedInvoices:select" /\ ret.done) =>
        /\ C24_IsWindow
        /\ IF C24_CurrentListed
           THEN C24_StartsAtCurrent
           ELSE \A i \in C24_LeftOut :
                    /\ Len(ret.value) = 12
                    /\ args.invoiceList[i].date <= ret.value[12].date

\* A list of 14 invoices with the current one second newest: the newest
\* is left out, 12 are selected and the oldest is left out.
C24_Witness ==
    /\ fn = "getCachedInvoices:select"
    /\ ret.done
    /\ Len(args.invoiceList) = 14
    /\ C24_CurrentListed
    /\ Len(ret.value) = 12
    /\ \E i, j \in C24_LeftOut :
        /\ args.invoiceList[i].date > ret.value[1].date
        /\ args.invoiceList[j].date < ret.value[12].date

\* A current invoice the list does not contain, and the newest invoices
\* selected.
C24_UnlistedWitness ==
    /\ fn = "getCachedInvoices:select"
    /\ ret.done
    /\ ~C24_CurrentListed
    /\ Len(ret.value) = 12
    /\ C24_LeftOut /= {}

\* The iterations so far that looked the card's invoices up.
C25_Lookups ==
    { i \in 1..Len(results) :
        /\ NormalMode(options)
        /\ HasContext(options)
        /\ transactions[i].installment > 1 }

\* C25: within one run the invoices of the card are fetched once: the
\* first lookup lists the invoices and hydrates each selected one, and the
\* run sends no other request however many lookups follow.
C25_FetchedOncePerRun ==
    /\ Len(SelectSeq(apiCalls, LAMBDA c : c.op = "getInvoices")) <= 1
    /\ C25_Lookups = {} /\ pc /= "rejected" => apiCalls = <<>>
    /\ C25_Lookups /= {} =>
        /\ Len(apiCalls) = 1 + Len(invoiceCache.invoices)
        /\ apiCalls[1] = ApiCall("getInvoices", options.cardId, 0, TRUE)
        /\ \A k \in 1..Len(invoiceCache.invoices) :
            apiCalls[k + 1] = ApiCall("getInvoice", options.cardId,
                                      invoiceCache.invoices[k].id, TRUE)

\* A run with two lookups for card 1 that sent the list request and the
\* three hydrations of the first lookup, and nothing for the second.
C25_Witness ==
    /\ pc = "done"
    /\ Cardinality(C25_Lookups) >= 2
    /\ Len(apiCalls) = 4
    /\ Len(invoiceCache.invoices) = 3

-----------------------------------------------------------------------------
(* Claims about patterns that fail to compile                              *)

\* A rule pattern of the model's alphabet compiles unless it opens a group
\* it never closes.
C26_Compiles(pattern) == \A k \in 1..Len(pattern) : pattern[k] /= "("

\* C26: an entry whose pattern fails to compile is passed over: the matcher
\* returns what it returns for the list without such entries, the first
\* remaining entry that matches or none.  A rename key is escaped before it
\* is compiled, so every key compiles and a "(" in a key stands for itself.
C26_InvalidEntriesSkipped ==
    /\ (ret.done /\ fn = "matchCategory") =>
        LET valid == SelectSeq(args.rules, LAMBDA r : C26_Compiles(r.pattern))
            matching == { i \in 1..Len(valid) :
                            C7_Contains(args.description, valid[i].pattern) }
        IN ret.value = IF matching = {} THEN NullName
                       ELSE valid[First(matching)].category
    /\ (ret.done /\ fn = "matchRename") =>
        LET entries == ObjectEntries(args.renameMap)
            matching == MatchingEntries(entries, args.description)
        IN /\ \A i \in 1..Len(entries) : RegExpCompiles(GlobToRegex(entries[i].key))
           /\ ret.value = IF matching = {} THEN NullStr
                          ELSE entries[First(matching)].value

\* matchCategory met a rule that fails to compile and returned the
\* category of the valid rule after it.
C26_Witness ==
    /\ ret.done
    /\ fn = "matchCategory"
    /\ Len(args.rules) = 2
    /\ ~RegExpCompiles(args.rules[1].pattern)
    /\ RegExpCompiles(args.rules[2].pattern)
    /\ ret.value = args.rules[2].category

\* matchRename met the key "(" first and returned the replacement of the
\* key after it.
C26_RenameWitness ==
    /\ ret.done
    /\ fn = "matchRename"
    /\ Len(args.renameMap) = 2
    /\ ObjectEntries(args.renameMap)[1].key = <<"(">>
    /\ ret.value = ObjectEntries(args.renameMap)[2].value
    /\ ret.value /= ObjectEntries(args.renameMap)[1].value

-----------------------------------------------------------------------------
(* Claims about normal mode and about independence of the results          *)

\* updated_at is strictly later than created_at.
C27_Edited(txn) == txn.updated_at.wall > txn.created_at.wall

\* C27: in normal mode without force a transaction edited after its
\* creation is skipped without changes, for no_match, already_correct or
\* manual_edit.
C27_EditedIsSkipped ==
    (NormalMode(options) /\ ~options.force) =>
        \A i \in 1..Len(results) :
            C27_Edited(transactions[i]) =>
                /\ results[i].action = "skip"
                /\ results[i].changes = NoChanges
                /\ results[i].reason \in {"no_match", "already_correct", "manual_edit"}

\* A batch of two edited transactions: one already in the category its rule
\* gives, one the rules would move.
C27_Witness ==
    /\ pc = "done"
    /\ NormalMode(options)
    /\ ~options.force
    /\ \E i, j \in 1..Len(results) :
        /\ C27_Edited(transactions[i])
        /\ results[i].reason = "already_correct"
        /\ C27_Edited(transactions[j])
        /\ results[j].reason = "manual_edit"

\* C28: in normal mode a result that is not a skip is an update that
\* carries a category id other than the transaction's current one, with
\* reason installment or pattern; the action rename occurs only with
\* renameOnly.  The category table of the model has no id 0.
C28_NormalModeUpdates ==
    \A i \in 1..Len(results) :
        /\ results[i].action = "rename" => options.renameOnly
        /\ (NormalMode(options) /\ results[i].action /= "skip") =>
            /\ results[i].action = "update"
            /\ results[i].changes.defined
            /\ results[i].changes.category_id /= NullId
            /\ results[i].changes.category_id /= transactions[i].category_id
            /\ results[i].reason \in {"installment", "pattern"}

\* A normal batch with one update by inheritance and one by pattern, the
\* second together with a rename of the description.
C28_Witness ==
    /\ pc = "done"
    /\ NormalMode(options)
    /\ 0 \notin CategoryTableIds(config.categories)
    /\ \E i, j \in 1..Len(results) :
        /\ results[i].action = "update"
        /\ results[i].reason = "installment"
        /\ results[j].action = "update"
        /\ results[j].reason = "pattern"
        /\ results[j].changes.description /= NullStr

\* A renameOnly batch with a rename.
C28_RenameWitness ==
    /\ pc = "done"
    /\ options.renameOnly
    /\ \E i \in 1..Len(results) : results[i].action = "rename"

\* The transactions of the batch that precede txn by one installment.
C30_Previous(txn) ==
    { j \in 1..Len(transactions) :
        /\ transactions[j].installment = txn.installment - 1
        /\ transactions[j].total_installments = txn.total_installments }

\* Every result carries its transaction as it was passed in, and a
\* category inherited within the batch is one a previous installment came
\* with.
C30_ReadsOriginals ==
    /\ \A i \in 1..Len(results) : results[i].transaction = transactions[i]
    /\ (NormalMode(options) /\ ~HasContext(options)) =>
        \A i \in 1..Len(results) :
            (results[i].action /= "skip" /\ results[i].reason = "installment") =>
                \E j \in C30_Previous(transactions[i]) :
                    transactions[j].category_id = results[i].changes.category_id

\* C30: processBatch never changes the transactions it was given, and what
\* it decides for a transaction does not depend on what it staged for
\* another: an installment inherits the category its predecessor came
\* with, never the one this run suggests for the predecessor.
C30_InputsUntouched ==
    [] C30_ReadsOriginals /\ [][transactions' = transactions]_vars

\* A batch without card context: installment 1 of 2 came without a
\* category and gets 5 by pattern; installment 2 of 2 inherits nothing and
\* gets its category by pattern too.
C30_Witness ==
    /\ pc = "done"
    /\ NormalMode(options)
    /\ ~HasContext(options)
    /\ Len(results) = 2
    /\ transactions[1].installment = 1
    /\ transactions[1].category_id = 0
    /\ results[1].changes.category_id = 5
    /\ transactions[2].installment = 2
    /\ 1 \in C30_Previous(transactions[2])
    /\ results[2].reason = "pattern"

-----------------------------------------------------------------------------
(* Claims about the apply loop of the update command                       *)

\* The results the loop has passed that propose a change.
C29_Due ==
    SelectSeq(SubSeq(results, 1, cursor),
              LAMBDA r : r.action \in {"update", "rename"} /\ r.changes /= NoChanges)

\* C29: with --apply the command calls api.updateTransaction once for each
\* result with changes and action update or rename, in the order of the
\* results, and for no other result; a call that fails does not end the
\* loop, and applied counts the calls that succeeded.
C29_ApplyLoop ==
    (options.apply /\ pc \in {"apply", "summary"}) =>
        /\ Len(UpdateCalls) = Len(C29_Due)
        /\ \A k \in 1..Len(UpdateCalls) :
            UpdateCalls[k].id = C29_Due[k].transaction.id
        /\ applied = Len(SelectSeq(UpdateCalls, LAMBDA c : c.ok))
        /\ pc = "summary" => cursor = Len(results)

\* An applied run of two changes in which the first call failed and the
\* second succeeded.
C29_Witness ==
    /\ options.apply
    /\ pc = "summary"
    /\ Len(results) = 2
    /\ Len(UpdateCalls) = 2
    /\ ~UpdateCalls[1].ok
    /\ UpdateCalls[2].ok
    /\ UpdateCalls[1].id = 1
    /\ UpdateCalls[2].id = 2
    /\ applied = 1

\* An applied run that passed over a skip result and sent the change of
\* the result after it.
C29_SkipWitness ==
    /\ options.apply
    /\ pc = "summary"
    /\ Len(results) = 2
    /\ results[1].action = "skip"
    /\ Len(UpdateCalls) = 1
    /\ UpdateCalls[1].id = 2

====
